---- MODULE Spec2Model ----
(***************************************************************************)
(* math_sim: expression tree -> IR -> virtual CPU with a bit-serial ALU    *)
(* and a byte-addressed RAM.                                               *)
(*                                                                         *)
(* Representation of machine integers.  TLC integers are 32-bit signed, so *)
(* a uint32_t (word_t) is kept as two 16-bit limbs [hi, lo] and a C long   *)
(* (64-bit two's complement) as [h, w]: h the signed upper 32 bits, w the  *)
(* lower 32 bits as a word.  All widths are the source's.                  *)
(***************************************************************************)
EXTENDS Integers, Sequences, FiniteSets, TLC

VARIABLES
    \* ---- ALU harness: one call of alu_add / alu_sub / alu_mul / alu_div
    alu_a, alu_b,      \* operands
    alu_f,             \* the ALUFlags object passed by pointer
    alu_op,            \* which operation ran ("none" before the call)
    alu_result,        \* returned word
    \* ---- Memory harness and the RAM itself
    mem,               \* Memory.data, non-zero bytes only (addr -> byte)
    mem_op,            \* last memory call: "none" | "read" | "write"
    mem_addr,          \* its addr argument
    mem_rc,            \* its return: "ok" | "AlignmentError" | "BoundsError" | "NullMemory"
    mem_out,           \* the caller's *out word of mem_read_word
    mem_last,          \* history: aligned addr -> last word successfully written
    \* ---- CPU (locals of cpu_execute) and its caller
    prog,              \* IRProgram.data[0 .. count-1] as a sequence (index + 1)
    prog_null,         \* the prog argument was NULL
    mem_attached,      \* cpu.mem != NULL
    out_attached,      \* out_result != NULL
    regs, flags, pc,   \* CPU struct
    last_dst, step_count,
    status,            \* "idle" | "running" | "ok" | "error"
    err,               \* which diagnostic the failing return printed
    out_result,        \* the caller's long: [written, value]
    \* ---- history / driver
    mem0,              \* RAM content when the current cpu_execute call began
    stores,            \* Stores completed in the current call: <<addr, value>>
    dispatched,        \* instructions dispatched in the current call
    calls,             \* cpu_execute calls made so far
    ast,               \* main(): the parsed tree, NoTree for a hand-written program
    eval_result,       \* main(): eval(root)
    \* ---- code generator
    codegen,           \* main's Codegen cg: [prog, next_reg] (prog: what cg->prog points to)
    cg_reg,            \* what the last codegen_expr call returned (-1: none yet)
    cg_runs,           \* codegen_expr calls on a root so far
    cg_first,          \* history: program and register of the first of them
    \* ---- lexer
    ts,                \* the TokenStream: [src, len, pos, current, has_current]
    lex_ret,           \* the last lexer call and the Token it returned: [call, tok, n]
    lex_nexts,         \* history: the Tokens lexer_next returned, in order
    \* ---- AST nodes on the C heap
    heap,              \* the Nodes malloc has returned, by address 1, 2, ... (NULL is 0)
    frees,             \* history: free() calls made on each address
    roots,             \* the Node pointers the client holds (trees it owns)
    ast_ret,           \* the last ast_* call and what it returned: [call, node]
    \* ---- parser
    parser,            \* Parser.error (Parser.ts is the TokenStream ts)
    parse_ret,         \* the last parser call: [call, root, trace]
    \* ---- IRProgram buffer
    irp,               \* IRProgram: [data, count, capacity], data[i] of the code is data[i + 1]
    ir_log             \* history: the instructions passed to ir_program_append, in order

aluVars == <<alu_a, alu_b, alu_f, alu_op, alu_result>>
memHarness == <<mem_op, mem_addr, mem_rc, mem_out, mem_last>>
memVars == <<mem, memHarness>>
cpuVars == <<prog, prog_null, mem_attached, out_attached, regs, flags, pc, last_dst,
             step_count, status, err, out_result>>
cgVars  == <<codegen, cg_reg, cg_runs, cg_first>>
drvVars == <<mem0, stores, dispatched, calls, ast, eval_result, cgVars>>
lexVars == <<ts, lex_ret, lex_nexts>>
astVars == <<heap, frees, roots, ast_ret>>
parVars == <<parser, parse_ret>>
irVars  == <<irp, ir_log>>
objVars == <<astVars, parVars, irVars>>
vars    == <<aluVars, memVars, cpuVars, drvVars, lexVars, objVars>>

(***************************************************************************)
(* Program constants                                                       *)
(***************************************************************************)
WORD_BITS     == 32
CPU_MAX_REGS  == 32
MEM_SIZE      == 65536
MEM_WORD_SIZE == 4

(***************************************************************************)
(* word_t: uint32_t as two 16-bit limbs                                    *)
(***************************************************************************)
W(h, l)  == [hi |-> h, lo |-> l]
WZero    == W(0, 0)
\* a non-negative constant below 2^31 as a word
Wd(n)    == W(n \div 65536, n % 65536)

\* (a >> i) & 1u
Bit(a, i) ==
    IF i < 16 THEN (a.lo \div (2 ^ i)) % 2 ELSE (a.hi \div (2 ^ (i - 16))) % 2

\* r | (bit << i)
OrBit(r, bit, i) ==
    IF bit = 0 \/ Bit(r, i) = 1 THEN r
    ELSE IF i < 16 THEN [r EXCEPT !.lo = @ + 2 ^ i]
                   ELSE [r EXCEPT !.hi = @ + 2 ^ (i - 16)]

\* ~b
WNot(b) == W(65535 - b.hi, 65535 - b.lo)

\* one-bit ^, &, |
Xor1(x, y) == (x + y) % 2
And1(x, y) == x * y
Or1(x, y)  == IF x + y > 0 THEN 1 ELSE 0

\* unsigned comparisons of words
WGt(x, y) == x.hi > y.hi \/ (x.hi = y.hi /\ x.lo > y.lo)
WGe(x, y) == x = y \/ WGt(x, y)

\* the 32-bit product of two 16-bit limbs, as a word
Mul16(x, y) ==
    LET p0  == x * (y % 256)
        p1  == x * (y \div 256)
        low == p0 + (p1 % 256) * 256
    IN  W((low \div 65536) + (p1 \div 256), low % 65536)

\* (word_t)((uint64_t)a * (uint64_t)b): the low 32 bits of the product
WMulLo(a, b) ==
    LET p  == Mul16(a.lo, b.lo)
        c1 == Mul16(a.lo, b.hi)
        c2 == Mul16(a.hi, b.lo)
    IN  W((p.hi + c1.lo + c2.lo) % 65536, p.lo)

\* (x - y) mod 2^32
WSubMod(x, y) ==
    LET l      == x.lo - y.lo
        borrow == IF l < 0 THEN 1 ELSE 0
    IN  W((x.hi - y.hi - borrow) % 65536, l % 65536)

\* (x << 1) | bit, mod 2^32
WShl1(x, bit) == W((x.hi * 2 + x.lo \div 32768) % 65536, (x.lo * 2 + bit) % 65536)

\* C's unsigned a / b and a % b (b # 0), by binary long division from bit 31 down.
\* The accumulators [r, q] of one iteration are bound as a value (st) before
\* the next one starts, so TLC evaluates the loop iteration by iteration.
RECURSIVE div_loop(_, _, _, _)
div_loop(a, b, i, acc) ==
    CHOOSE out \in
        { IF i < 0 THEN st
          ELSE LET sh   == WShl1(st.r, Bit(a, i))
                   take == Bit(st.r, 31) = 1 \/ WGe(sh, b)
               IN  div_loop(a, b, i - 1,
                            [r |-> IF take THEN WSubMod(sh, b) ELSE sh,
                             q |-> IF take THEN OrBit(st.q, 1, i) ELSE st.q])
          : st \in {acc} } : TRUE

WDivMod(a, b) == div_loop(a, b, WORD_BITS - 1, [r |-> WZero, q |-> WZero])
WDiv(a, b)    == WDivMod(a, b).q

(***************************************************************************)
(* ALU (alu.c)                                                             *)
(***************************************************************************)
Flags(z, n, c, v) == [Z |-> z, N |-> n, C |-> c, V |-> v]
ZeroFlags == Flags(0, 0, 0, 0)

\* the for-loop of ripple_add, from bit i on; acc is [carry, result], bound
\* as a value (st) at every iteration as in div_loop
RECURSIVE ripple_loop(_, _, _, _)
ripple_loop(a, b, i, acc) ==
    CHOOSE out \in
        { IF i >= WORD_BITS THEN st
          ELSE LET a_bit     == Bit(a, i)
                   b_bit     == Bit(b, i)
                   sum_bit   == Xor1(Xor1(a_bit, b_bit), st.carry)
                   carry_out == Or1(And1(a_bit, b_bit), And1(st.carry, Xor1(a_bit, b_bit)))
               IN  ripple_loop(a, b, i + 1,
                               [carry |-> carry_out, result |-> OrBit(st.result, sum_bit, i)])
          : st \in {acc} } : TRUE

\* ripple_add: the result and *f afterwards (Z, N, C written, V left alone).
\* r is the loop's outcome, bound once like the C locals result and carry.
ripple_add(a, b, carry_in, f) ==
    CHOOSE out \in
        { [result |-> r.result,
           f      |-> [f EXCEPT !.C = r.carry % 2,
                                !.Z = IF r.result = WZero THEN 1 ELSE 0,
                                !.N = Bit(r.result, 31)]]
          : r \in {ripple_loop(a, b, 0, [carry |-> carry_in % 2, result |-> WZero])} } : TRUE

\* a plausible slip: the adder started with carry_in = 1
alu_add_carry1(a, b, f) ==
    LET sign_a == Bit(a, 31)
        sign_b == Bit(b, 31)
    IN  CHOOSE out \in
            { LET sign_res == Bit(r.result, 31)
              IN  [result |-> r.result,
                   f      |-> [r.f EXCEPT !.V =
                                  IF sign_a = sign_b /\ sign_res # sign_a
                                  THEN 1 ELSE 0]]
              : r \in {ripple_add(a, b, 1, f)} } : TRUE

\* a plausible slip: overflow judged from the first operand's sign alone
alu_add_signa(a, b, f) ==
    LET sign_a == Bit(a, 31)
    IN  CHOOSE out \in
            { LET sign_res == Bit(r.result, 31)
              IN  [result |-> r.result,
                   f      |-> [r.f EXCEPT !.V = IF sign_res # sign_a THEN 1 ELSE 0]]
              : r \in {ripple_add(a, b, 0, f)} } : TRUE

alu_add(a, b, f) ==
    LET sign_a == Bit(a, 31)
        sign_b == Bit(b, 31)
    IN  CHOOSE out \in
            { LET sign_res == Bit(r.result, 31)
              IN  [result |-> r.result,
                   f      |-> [r.f EXCEPT !.V =
                                  IF sign_a = sign_b /\ sign_res # sign_a
                                  THEN 1 ELSE 0]]
              : r \in {ripple_add(a, b, 0, f)} } : TRUE

\* a plausible slip: b passed to the adder without inverting it
alu_sub_noinvert(a, b, f) ==
    LET sign_a == Bit(a, 31)
        sign_b == Bit(b, 31)
    IN  CHOOSE out \in
            { LET sign_res == Bit(r.result, 31)
              IN  [result |-> r.result,
                   f      |-> [r.f EXCEPT !.V =
                                  IF sign_a # sign_b /\ sign_res # sign_a
                                  THEN 1 ELSE 0]]
              : r \in {ripple_add(a, b, 1, f)} } : TRUE

alu_sub(a, b, f) ==
    LET sign_a == Bit(a, 31)
        sign_b == Bit(b, 31)
    IN  CHOOSE out \in
            { LET sign_res == Bit(r.result, 31)
              IN  [result |-> r.result,
                   f      |-> [r.f EXCEPT !.V =
                                  IF sign_a # sign_b /\ sign_res # sign_a
                                  THEN 1 ELSE 0]]
              : r \in {ripple_add(a, WNot(b), 1, f)} } : TRUE

\* a plausible slip: C and V left as the caller passed them
alu_mul_keepcv(a, b, f) ==
    CHOOSE out \in
        { [result |-> result,
           f      |-> [f EXCEPT !.Z = IF result = WZero THEN 1 ELSE 0,
                                !.N = Bit(result, 31)]]
          : result \in {WMulLo(a, b)} } : TRUE

alu_mul(a, b, f) ==
    CHOOSE out \in
        { [result |-> result,
           f      |-> Flags(IF result = WZero THEN 1 ELSE 0, Bit(result, 31), 0, 0)]
          : result \in {WMulLo(a, b)} } : TRUE

\* a plausible slip: "%" typed for "/"
alu_div_rem(a, b, f) ==
    CHOOSE out \in
        { [result |-> result,
           f      |-> Flags(IF result = WZero THEN 1 ELSE 0, Bit(result, 31), 0, 0)]
          : result \in {WDivMod(a, b).r} } : TRUE

\* caller guarantees b # 0
alu_div(a, b, f) ==
    CHOOSE out \in
        { [result |-> result,
           f      |-> Flags(IF result = WZero THEN 1 ELSE 0, Bit(result, 31), 0, 0)]
          : result \in {WDiv(a, b)} } : TRUE

(***************************************************************************)
(* Memory (memory.c).  Memory.data is MEM_SIZE bytes, all zero after       *)
(* mem_init; the model keeps the non-zero bytes only, so equal RAM         *)
(* contents are equal values.                                              *)
(***************************************************************************)
mem_init == [x \in {} |-> 0]

\* mem->data[i]
MemByte(m, i) == IF i \in DOMAIN m THEN m[i] ELSE 0

\* data with bytes[k] stored at i + k, k = 0 .. 3
MemPut(m, i, bytes) ==
    LET at(x) == IF x \in i .. i + 3 THEN bytes[x - i + 1] ELSE MemByte(m, x)
        dom   == {x \in DOMAIN m \cup (i .. i + 3) : at(x) # 0}
    IN  [x \in dom |-> at(x)]

\* a % m for a small m
WMod(a, m) == ((a.hi % m) * (65536 % m) + a.lo) % m

\* an address that passed check_access, as an index into data[]
WIndex(a) == a.hi * 65536 + a.lo

\* v >> n for n < 32
WShr(v, n) ==
    IF n >= 16 THEN W(0, v.hi \div (2 ^ (n - 16)))
    ELSE W(v.hi \div (2 ^ n), (v.lo \div (2 ^ n)) + (v.hi % (2 ^ n)) * (2 ^ (16 - n)))

\* (uint32_t)byte << n for n in {0, 8, 16, 24}
ByteShl(b, n) ==
    IF n >= 16 THEN W(b * (2 ^ (n - 16)), 0) ELSE W(0, b * (2 ^ n))

\* x | y on 16-bit limbs and on words, bit by bit from the low end
RECURSIVE Or16(_, _, _)
Or16(x, y, n) ==
    CHOOSE out \in
        { IF n = 0 THEN 0
          ELSE Or1(p[1] % 2, p[2] % 2) + 2 * Or16(p[1] \div 2, p[2] \div 2, n - 1)
          : p \in {<<x, y>>} } : TRUE

WOr(x, y) == W(Or16(x.hi, y.hi, 16), Or16(x.lo, y.lo, 16))

\* (uint8_t)(v & 0xFFu)
LowByte(v) == v.lo % 256

\* a plausible slip: ">=" for ">" in the bounds test, refusing the last word
check_access_offbyone(addr) ==
    IF WMod(addr, MEM_WORD_SIZE) # 0 THEN "AlignmentError"
    ELSE IF WGe(addr, Wd(MEM_SIZE - MEM_WORD_SIZE)) THEN "BoundsError"
    ELSE "ok"

\* check_access: which diagnostic it prints, or "ok" (return 0)
check_access(addr) ==
    IF WMod(addr, MEM_WORD_SIZE) # 0 THEN "AlignmentError"
    ELSE IF WGt(addr, Wd(MEM_SIZE - MEM_WORD_SIZE)) THEN "BoundsError"
    ELSE "ok"

\* a plausible slip: the third byte shifted by 8 instead of 16
mem_read_word_shift(present, m, addr, out) ==
    IF ~present THEN [rc |-> "NullMemory", out |-> out]
    ELSE IF check_access(addr) # "ok" THEN [rc |-> check_access(addr), out |-> out]
    ELSE LET i == WIndex(addr)
         IN  [rc  |-> "ok",
              out |-> WOr(WOr(WOr(ByteShl(MemByte(m, i), 0),
                                  ByteShl(MemByte(m, i + 1), 8)),
                              ByteShl(MemByte(m, i + 2), 8)),
                          ByteShl(MemByte(m, i + 3), 24))]

\* a plausible slip: *out cleared before the access is checked
mem_read_word_clearout(present, m, addr, out) ==
    IF ~present THEN [rc |-> "NullMemory", out |-> out]
    ELSE IF check_access(addr) # "ok" THEN [rc |-> check_access(addr), out |-> WZero]
    ELSE LET i == WIndex(addr)
         IN  [rc  |-> "ok",
              out |-> WOr(WOr(WOr(ByteShl(MemByte(m, i), 0),
                                  ByteShl(MemByte(m, i + 1), 8)),
                              ByteShl(MemByte(m, i + 2), 16)),
                          ByteShl(MemByte(m, i + 3), 24))]

\* mem_read_word: the return and *out afterwards (present: mem != NULL)
mem_read_word(present, m, addr, out) ==
    IF ~present THEN [rc |-> "NullMemory", out |-> out]
    ELSE IF check_access(addr) # "ok" THEN [rc |-> check_access(addr), out |-> out]
    ELSE LET i == WIndex(addr)
         IN  [rc  |-> "ok",
              out |-> WOr(WOr(WOr(ByteShl(MemByte(m, i), 0),
                                  ByteShl(MemByte(m, i + 1), 8)),
                              ByteShl(MemByte(m, i + 2), 16)),
                          ByteShl(MemByte(m, i + 3), 24))]

\* a plausible slip: the bytes stored most significant first
mem_write_word_bigendian(present, m, addr, value) ==
    IF ~present THEN [rc |-> "NullMemory", data |-> m]
    ELSE IF check_access(addr) # "ok" THEN [rc |-> check_access(addr), data |-> m]
    ELSE [rc   |-> "ok",
          data |-> MemPut(m, WIndex(addr),
                          << LowByte(WShr(value, 24)), LowByte(WShr(value, 16)),
                             LowByte(WShr(value, 8)),  LowByte(value) >>)]

\* a plausible slip: the bytes stored before the access is checked
mem_write_word_unchecked(present, m, addr, value) ==
    IF ~present THEN [rc |-> "NullMemory", data |-> m]
    ELSE [rc   |-> check_access(addr),
          data |-> MemPut(m, WIndex(addr),
                          << LowByte(value),           LowByte(WShr(value, 8)),
                             LowByte(WShr(value, 16)), LowByte(WShr(value, 24)) >>)]

\* mem_write_word: the return and data[] afterwards
mem_write_word(present, m, addr, value) ==
    IF ~present THEN [rc |-> "NullMemory", data |-> m]
    ELSE IF check_access(addr) # "ok" THEN [rc |-> check_access(addr), data |-> m]
    ELSE [rc   |-> "ok",
          data |-> MemPut(m, WIndex(addr),
                          << LowByte(value),           LowByte(WShr(value, 8)),
                             LowByte(WShr(value, 16)), LowByte(WShr(value, 24)) >>)]

(***************************************************************************)
(* long: 64-bit two's complement as [h, w], value = h * 2^32 + w           *)
(***************************************************************************)
L(h, w) == [h |-> h, w |-> w]

\* a long given as an integer of the TLC range
LongOf(n) == L(IF n < 0 THEN -1 ELSE 0, W((n \div 65536) % 65536, n % 65536))

\* the integer a long stands for, when it lies in -2^31 .. 2^31 - 1 (TLC stops
\* with an overflow for any other long)
LInt(x) ==
    IF x.h = 0 THEN x.w.hi * 65536 + x.w.lo
    ELSE IF x.h = -1 THEN (x.w.hi - 65536) * 65536 + x.w.lo
    ELSE x.h * 65536 * 65536

\* (word_t)(uint32_t)x: the low 32 bits
LongToWord(x) == x.w

\* (long)(int32_t)w: sign extension
WordToLong(w) == L(IF Bit(w, 31) = 1 THEN -1 ELSE 0, w)

(***************************************************************************)
(* AST (ast.h) and the reference evaluator (eval.c)                        *)
(***************************************************************************)
Num(v)        == [type |-> "NODE_NUMBER", value |-> v]
Bin(op, l, r) == [type |-> "NODE_BINARY_OP", op |-> op, left |-> l, right |-> r]
NoTree        == [type |-> "NONE"]

BinaryOps == {"OP_ADD", "OP_SUB", "OP_MUL", "OP_DIV"}

\* C's x / y on long: the quotient truncated toward zero (y # 0)
CDiv(x, y) ==
    LET ax == IF x < 0 THEN -x ELSE x
        ay == IF y < 0 THEN -y ELSE y
        q  == ax \div ay
    IN  IF (x < 0) = (y < 0) THEN q ELSE -q

make_ok(v)  == [value |-> v, status |-> "EVAL_OK"]
make_err(s) == [value |-> LongOf(0), status |-> s]
NoEval      == [value |-> LongOf(0), status |-> "NONE"]

\* eval; long arithmetic is exact here because the model's trees keep every
\* value inside the TLC range (signed overflow, undefined in C, is out of reach)
RECURSIVE eval(_)
eval(node) ==
    IF node.type = "NODE_NUMBER" THEN make_ok(node.value)
    ELSE IF node.type = "NODE_BINARY_OP" THEN
        LET lhs == eval(node.left)
            rhs == eval(node.right)
        IN  IF lhs.status # "EVAL_OK" THEN make_err(lhs.status)
            ELSE IF rhs.status # "EVAL_OK" THEN make_err(rhs.status)
            ELSE CASE node.op = "OP_ADD" ->
                        make_ok(LongOf(LInt(lhs.value) + LInt(rhs.value)))
                   [] node.op = "OP_SUB" ->
                        make_ok(LongOf(LInt(lhs.value) - LInt(rhs.value)))
                   [] node.op = "OP_MUL" ->
                        make_ok(LongOf(LInt(lhs.value) * LInt(rhs.value)))
                   [] node.op = "OP_DIV" ->
                        IF LInt(rhs.value) = 0 THEN make_err("EVAL_ERR_DIV_ZERO")
                        ELSE make_ok(LongOf(CDiv(LInt(lhs.value), LInt(rhs.value))))
                   [] OTHER -> make_err("EVAL_ERR_INTERNAL")
    ELSE make_err("EVAL_ERR_INTERNAL")

(***************************************************************************)
(* IR (ir.h) and the code generator (codegen.c)                            *)
(***************************************************************************)
Opcodes == {"IR_LOAD_CONST", "IR_ADD", "IR_SUB", "IR_MUL", "IR_DIV", "IR_CMP",
            "IR_JMP", "IR_JZ", "IR_JNZ", "IR_LOAD", "IR_STORE"}

\* IRInstr; a field a C initialiser does not name is 0
IRInstr(op, dst, src, imm, target, addr) ==
    [op |-> op, dst |-> dst, src |-> src, imm |-> imm, target |-> target, addr |-> addr]

\* ir_program_append on the instruction sequence
ir_program_append(p, instr) == Append(p, instr)

\* a plausible slip: the register counter not reset
codegen_init_stale(p) == [prog |-> p, next_reg |-> codegen.next_reg]

\* codegen_init: Codegen over an (empty) program
codegen_init(p) == [prog |-> p, next_reg |-> 0]

ast_op_to_ir(op) ==
    CASE op = "OP_ADD" -> "IR_ADD"
      [] op = "OP_SUB" -> "IR_SUB"
      [] op = "OP_MUL" -> "IR_MUL"
      [] op = "OP_DIV" -> "IR_DIV"

\* a plausible slip: alloc_reg returning ++cg->next_reg
RECURSIVE codegen_expr_preinc(_, _)
codegen_expr_preinc(cg, node) ==
    IF node.type = "NODE_NUMBER" THEN
        LET reg == cg.next_reg + 1
        IN  [cg  |-> [prog     |-> ir_program_append(cg.prog,
                                      IRInstr("IR_LOAD_CONST", reg, 0, node.value, 0, 0)),
                      next_reg |-> cg.next_reg + 1],
             reg |-> reg]
    ELSE
        LET l == codegen_expr_preinc(cg, node.left)
            r == codegen_expr_preinc(l.cg, node.right)
        IN  [cg  |-> [r.cg EXCEPT !.prog =
                         ir_program_append(r.cg.prog,
                             IRInstr(ast_op_to_ir(node.op), l.reg, r.reg, LongOf(0), 0, 0))],
             reg |-> l.reg]

\* a plausible slip: the operator emitted as soon as its left operand is compiled
RECURSIVE codegen_expr_early(_, _)
codegen_expr_early(cg, node) ==
    IF node.type = "NODE_NUMBER" THEN
        LET reg == cg.next_reg
        IN  [cg  |-> [prog     |-> ir_program_append(cg.prog,
                                      IRInstr("IR_LOAD_CONST", reg, 0, node.value, 0, 0)),
                      next_reg |-> cg.next_reg + 1],
             reg |-> reg]
    ELSE
        LET l == codegen_expr_early(cg, node.left)
            e == [l.cg EXCEPT !.prog =
                     ir_program_append(l.cg.prog,
                         IRInstr(ast_op_to_ir(node.op), l.reg, l.cg.next_reg,
                                 LongOf(0), 0, 0))]
            r == codegen_expr_early(e, node.right)
        IN  [cg |-> r.cg, reg |-> l.reg]

\* a plausible slip: alloc_reg wrapping around at the size of the register file
RECURSIVE codegen_expr_wrap(_, _)
codegen_expr_wrap(cg, node) ==
    IF node.type = "NODE_NUMBER" THEN
        LET reg == cg.next_reg % CPU_MAX_REGS
        IN  [cg  |-> [prog     |-> ir_program_append(cg.prog,
                                      IRInstr("IR_LOAD_CONST", reg, 0, node.value, 0, 0)),
                      next_reg |-> cg.next_reg + 1],
             reg |-> reg]
    ELSE
        LET l == codegen_expr_wrap(cg, node.left)
            r == codegen_expr_wrap(l.cg, node.right)
        IN  [reg |-> l.reg,
             cg  |-> [r.cg EXCEPT !.prog =
                         ir_program_append(r.cg.prog,
                             IRInstr(ast_op_to_ir(node.op), l.reg, r.reg, LongOf(0), 0, 0))]]

\* a plausible slip: the operands of the emitted operator exchanged
RECURSIVE codegen_expr_swapped(_, _)
codegen_expr_swapped(cg, node) ==
    IF node.type = "NODE_NUMBER" THEN
        LET reg == cg.next_reg
        IN  [cg  |-> [prog     |-> ir_program_append(cg.prog,
                                      IRInstr("IR_LOAD_CONST", reg, 0, node.value, 0, 0)),
                      next_reg |-> cg.next_reg + 1],
             reg |-> reg]
    ELSE
        LET l == codegen_expr_swapped(cg, node.left)
            r == codegen_expr_swapped(l.cg, node.right)
        IN  [reg |-> r.reg,
             cg  |-> [r.cg EXCEPT !.prog =
                         ir_program_append(r.cg.prog,
                             IRInstr(ast_op_to_ir(node.op), r.reg, l.reg, LongOf(0), 0, 0))]]

\* codegen_expr: the Codegen afterwards and the returned register
RECURSIVE codegen_expr(_, _)
codegen_expr(cg, node) ==
    IF node.type = "NODE_NUMBER" THEN
        LET reg == cg.next_reg      \* alloc_reg: return cg->next_reg++
        IN  [cg  |-> [prog     |-> ir_program_append(cg.prog,
                                      IRInstr("IR_LOAD_CONST", reg, 0, node.value, 0, 0)),
                      next_reg |-> cg.next_reg + 1],
             reg |-> reg]
    ELSE
        LET l == codegen_expr(cg, node.left)
            r == codegen_expr(l.cg, node.right)
        IN  [reg |-> l.reg,
             cg  |-> [r.cg EXCEPT !.prog =
                         ir_program_append(r.cg.prog,
                             IRInstr(ast_op_to_ir(node.op), l.reg, r.reg, LongOf(0), 0, 0))]]

(***************************************************************************)
(* Input samples                                                           *)
(***************************************************************************)
\* words around every boundary the ALU and the RAM distinguish
WordSamples ==
    { WZero, Wd(1), Wd(2), Wd(5), Wd(65535), Wd(65536),
      W(32767, 65535),      \* 0x7FFFFFFF
      W(32768, 0),          \* 0x80000000
      W(32768, 1),          \* 0x80000001
      W(57005, 48879),      \* 0xDEADBEEF
      W(65535, 65534),      \* 0xFFFFFFFE
      W(65535, 65535) }     \* 0xFFFFFFFF

FlagSamples == { ZeroFlags, Flags(1, 1, 1, 1) }

\* addresses on both sides of the alignment and bounds tests, up to 2^32 - 1
AddrSamples ==
    { WZero, Wd(4),
      Wd(258),              \* 0x102
      Wd(65532),            \* 0xFFFC = MEM_SIZE - 4
      Wd(65536),            \* 0x10000 = MEM_SIZE
      Wd(65538),            \* 0x10002
      W(65535, 65532),      \* 0xFFFFFFFC
      W(65535, 65535) }     \* 0xFFFFFFFF

StoreSamples == { WZero, W(57005, 48879), W(258, 772) }     \* 0, 0xDEADBEEF, 0x01020304

(***************************************************************************)
(* Rest states of the parts a specification does not exercise              *)
(***************************************************************************)
ZeroRegs == [r \in 0 .. CPU_MAX_REGS - 1 |-> WZero]
NoResult == [written |-> FALSE, value |-> LongOf(0)]
EmptyMem == mem_init

AluIdle ==
    /\ alu_a = WZero /\ alu_b = WZero /\ alu_f = ZeroFlags
    /\ alu_op = "none" /\ alu_result = WZero

MemIdle ==
    /\ mem = EmptyMem /\ mem_op = "none" /\ mem_addr = WZero
    /\ mem_rc = "ok" /\ mem_out = WZero /\ mem_last = [x \in {} |-> WZero]

CpuIdle ==
    /\ prog = << >> /\ prog_null = FALSE /\ mem_attached = FALSE /\ out_attached = FALSE
    /\ regs = ZeroRegs /\ flags = ZeroFlags /\ pc = 0
    /\ last_dst = 0 /\ step_count = 0
    /\ status = "idle" /\ err = "None" /\ out_result = NoResult

\* no output of the code generator yet
NoCode == [prog |-> << >>, reg |-> -1]

\* the Codegen struct is written by codegen_init before anything reads it
DrvIdle ==
    /\ mem0 = EmptyMem /\ stores = << >> /\ dispatched = 0 /\ calls = 0
    /\ ast = NoTree /\ eval_result = NoEval
    /\ codegen = [prog |-> << >>, next_reg |-> 0] /\ cg_reg = -1
    /\ cg_runs = 0 /\ cg_first = NoCode

(***************************************************************************)
(* Lexer (lexer.h, lexer.c).  A source string is a sequence of characters, *)
(* each a one-character string; src[pos] of the code is src[pos + 1] here. *)
(***************************************************************************)
\* isdigit and isspace of the "C" locale ('\v' has no TLA+ spelling)
Digits == {"0", "1", "2", "3", "4", "5", "6", "7", "8", "9"}

WhiteSpace == {" ", "\t", "\n", "\f", "\r"}

\* c - '0'
DigitOf(c) ==
    CASE c = "0" -> 0 [] c = "1" -> 1 [] c = "2" -> 2 [] c = "3" -> 3 [] c = "4" -> 4
      [] c = "5" -> 5 [] c = "6" -> 6 [] c = "7" -> 7 [] c = "8" -> 8 [] c = "9" -> 9

LONG_MAX == L(2147483647, W(65535, 65535))

\* x > y for two non-negative longs
LongGt(x, y) == x.h > y.h \/ (x.h = y.h /\ WGt(x.w, y.w))

\* x - d for a long x whose low limb is at least d
LongSubSmall(x, d) == L(x.h, W(x.w.hi, x.w.lo - d))

\* x / 10 for a non-negative long, limb by limb from the top
LongDiv10(x) ==
    LET l3 == x.h \div 65536
        l2 == x.h % 65536
        c2 == (l3 % 10) * 65536 + l2
        c1 == (c2 % 10) * 65536 + x.w.hi
        c0 == (c1 % 10) * 65536 + x.w.lo
    IN  L((l3 \div 10) * 65536 + (c2 \div 10), W(c1 \div 10, c0 \div 10))

\* x * 10 + d for a non-negative long that the overflow check has let through
LongMul10Add(x, d) ==
    LET t0 == x.w.lo * 10 + d
        t1 == x.w.hi * 10 + (t0 \div 65536)
        t2 == (x.h % 65536) * 10 + (t1 \div 65536)
        t3 == (x.h \div 65536) * 10 + (t2 \div 65536)
    IN  L(t3 * 65536 + (t2 % 65536), W(t1 % 65536, t0 % 65536))

make_token(type, value, pos) == [type |-> type, value |-> value, pos |-> pos]

\* the indeterminate Token in ts->current before the first lexer_peek; it is
\* never read while has_current is 0
NoToken == make_token("NONE", LongOf(0), 0)

RECURSIVE skip_ws(_, _, _)
skip_ws(src, pos, len) ==
    IF pos < len /\ src[pos + 1] \in WhiteSpace THEN skip_ws(src, pos + 1, len) ELSE pos

lexer_init(src) ==
    [src |-> src, len |-> Len(src), pos |-> 0, current |-> NoToken, has_current |-> FALSE]

\* the inner loop that drains the remaining digits after an overflow
RECURSIVE drain_digits(_, _, _)
drain_digits(src, pos, len) ==
    IF pos < len /\ src[pos + 1] \in Digits THEN drain_digits(src, pos + 1, len) ELSE pos

\* the digit loop of lexer_next from position pos with accumulator value:
\* [pos, tok], tok the NUMBER or, on overflow, the INVALID token at start
RECURSIVE scan_number(_, _, _, _, _)
scan_number(src, len, start, pos, value) ==
    IF pos < len /\ src[pos + 1] \in Digits
    THEN LET digit == DigitOf(src[pos + 1])
         IN  IF LongGt(value, LongDiv10(LongSubSmall(LONG_MAX, digit)))
             THEN [pos |-> drain_digits(src, pos, len),
                   tok |-> make_token("TOK_INVALID", LongOf(0), start)]
             ELSE scan_number(src, len, start, pos + 1, LongMul10Add(value, digit))
    ELSE [pos |-> pos, tok |-> make_token("TOK_NUMBER", value, start)]

\* the switch on a single character
PunctType(c) ==
    CASE c = "+" -> "TOK_PLUS"   [] c = "-" -> "TOK_MINUS"
      [] c = "*" -> "TOK_MUL"    [] c = "/" -> "TOK_DIV"
      [] c = "(" -> "TOK_LPAREN" [] c = ")" -> "TOK_RPAREN"
      [] OTHER -> "TOK_INVALID"

\* a plausible slip: the look-ahead cache not drained
lexer_next_nodrain(t) ==
    LET pos == skip_ws(t.src, t.pos, t.len)
    IN  IF pos >= t.len
        THEN [ts |-> [t EXCEPT !.pos = pos], tok |-> make_token("TOK_EOF", LongOf(0), pos)]
        ELSE IF t.src[pos + 1] \in Digits
        THEN LET r == scan_number(t.src, t.len, pos, pos, LongOf(0))
             IN  [ts |-> [t EXCEPT !.pos = r.pos], tok |-> r.tok]
        ELSE [ts  |-> [t EXCEPT !.pos = pos + 1],
              tok |-> make_token(PunctType(t.src[pos + 1]), LongOf(0), pos)]

\* lexer_next: the stream afterwards and the returned Token
lexer_next(t) ==
    IF t.has_current
    THEN [ts |-> [t EXCEPT !.has_current = FALSE], tok |-> t.current]
    ELSE LET pos == skip_ws(t.src, t.pos, t.len)
         IN  IF pos >= t.len
             THEN [ts  |-> [t EXCEPT !.pos = pos],
                   tok |-> make_token("TOK_EOF", LongOf(0), pos)]
             ELSE IF t.src[pos + 1] \in Digits
             THEN LET r == scan_number(t.src, t.len, pos, pos, LongOf(0))
                  IN  [ts |-> [t EXCEPT !.pos = r.pos], tok |-> r.tok]
             ELSE [ts  |-> [t EXCEPT !.pos = pos + 1],
                   tok |-> make_token(PunctType(t.src[pos + 1]), LongOf(0), pos)]

\* lexer_peek: the stream afterwards and the returned Token
lexer_peek(t) ==
    IF ~t.has_current
    THEN LET r == lexer_next(t)
         IN  [ts  |-> [r.ts EXCEPT !.current = r.tok, !.has_current = TRUE],
              tok |-> r.tok]
    ELSE [ts |-> t, tok |-> t.current]

\* no TokenStream yet
LexIdle ==
    /\ ts = lexer_init(<< >>)
    /\ lex_ret = [call |-> "none", tok |-> NoToken, n |-> 0]
    /\ lex_nexts = << >>

(***************************************************************************)
(* AST nodes on the heap (ast.c).  A Node pointer is an address 1, 2, ...  *)
(* into heap, NULL is 0; malloc returns a new address each time and is     *)
(* taken to succeed (on failure the constructors exit the process).        *)
(* The operators work on any record m with the fields heap, frees, exited. *)
(***************************************************************************)
NULL == 0

\* ast_make_number: the store afterwards and the returned pointer
ast_make_number(m, value) ==
    [m    |-> [m EXCEPT !.heap  = Append(@, [type |-> "NODE_NUMBER", value |-> value]),
                        !.frees = Append(@, 0)],
     node |-> Len(m.heap) + 1]

\* a plausible slip: only the left subtree released
RECURSIVE ast_free_leftonly(_, _)
ast_free_leftonly(m, node) ==
    IF node = NULL THEN m
    ELSE LET kids == IF m.heap[node].type = "NODE_BINARY_OP"
                     THEN ast_free_leftonly(m, m.heap[node].left)
                     ELSE m
         IN  [kids EXCEPT !.frees[node] = @ + 1]

\* ast_free: free(node) after both subtrees of a binary node
RECURSIVE ast_free(_, _)
ast_free(m, node) ==
    IF node = NULL THEN m
    ELSE LET kids == IF m.heap[node].type = "NODE_BINARY_OP"
                     THEN ast_free(ast_free(m, m.heap[node].left), m.heap[node].right)
                     ELSE m
         IN  [kids EXCEPT !.frees[node] = @ + 1]

\* ast_make_binary: with a NULL child it frees both and exits the process
ast_make_binary(m, op, left, right) ==
    IF left = NULL \/ right = NULL
    THEN [m    |-> [ast_free(ast_free(m, left), right) EXCEPT !.exited = TRUE],
          node |-> NULL]
    ELSE [m    |-> [m EXCEPT !.heap  = Append(@, [type |-> "NODE_BINARY_OP", op |-> op,
                                                  left |-> left, right |-> right]),
                             !.frees = Append(@, 0)],
          node |-> Len(m.heap) + 1]

\* the tree a pointer denotes, as the value the evaluator and codegen walk
RECURSIVE TreeOf(_, _)
TreeOf(h, node) ==
    IF node = NULL THEN NoTree
    ELSE IF h[node].type = "NODE_NUMBER" THEN Num(h[node].value)
    ELSE Bin(h[node].op, TreeOf(h, h[node].left), TreeOf(h, h[node].right))

\* no Node allocated, no ast_* call made
AstIdle ==
    /\ heap = << >> /\ frees = << >> /\ roots = {}
    /\ ast_ret = [call |-> "none", node |-> NULL]

(***************************************************************************)
(* Parser (parser.h, parser.c).  The productions work on a record p with   *)
(* the Parser's error flag, the TokenStream it points to, the Node store   *)
(* (heap, frees, exited) and trace, the history of what the productions    *)
(* returned and what was passed to ast_make_binary.                        *)
(***************************************************************************)
\* a plausible slip: the message printed and the flag left alone
parse_error_unset(p) == p

\* parse_error: the message is printed and the flag set
parse_error(p) == [p EXCEPT !.error = 1]

\* expect: consume the next token, flag an error when its type differs
expect(p, expected) ==
    LET n == lexer_next(p.ts)
        q == [p EXCEPT !.ts = n.ts]
    IN  [p |-> IF n.tok.type # expected THEN parse_error(q) ELSE q, tok |-> n.tok]

\* a production returns node: the state afterwards and the pointer
Return(p, prod, node) ==
    [p    |-> [p EXCEPT !.trace = Append(@, [ev |-> "return", prod |-> prod,
                                             error |-> p.error, node |-> node])],
     node |-> node]

\* the call left = ast_make_binary(op, left, right) of the two loops
MakeBinary(p, op, left, right) ==
    ast_make_binary([p EXCEPT !.trace = Append(@, [ev |-> "ast_make_binary",
                                                   left |-> left, right |-> right])],
                    op, left, right)

RECURSIVE parse_factor(_), parse_term(_), parse_expr(_), term_loop(_, _), expr_loop(_, _)

\* Each call's result is bound once, as a member of a singleton set, so that
\* it is computed once however often the caller reads it.

\* factor -> NUMBER | '(' expr ')'
parse_factor(p) ==
    IF p.error = 1 THEN Return(p, "parse_factor", NULL)
    ELSE CHOOSE out \in
           { LET t == pk.tok
                 q == [p EXCEPT !.ts = lexer_next(pk.ts).ts]     \* the token consumed
             IN  IF t.type = "TOK_NUMBER"
                 THEN LET n == ast_make_number(q, t.value)
                      IN  Return(n.m, "parse_factor", n.node)
                 ELSE IF t.type = "TOK_LPAREN"
                 THEN CHOOSE o \in
                        { IF inner.p.error = 1
                          THEN Return(ast_free(inner.p, inner.node), "parse_factor", NULL)
                          ELSE LET x == expect(inner.p, "TOK_RPAREN")
                               IN  IF x.p.error = 1
                                   THEN Return(ast_free(x.p, inner.node),
                                               "parse_factor", NULL)
                                   ELSE Return(x.p, "parse_factor", inner.node)
                          : inner \in {parse_expr(q)} } : TRUE
                 ELSE Return(parse_error(q), "parse_factor", NULL)
             : pk \in {lexer_peek(p.ts)} } : TRUE

\* the for (;;) loop of parse_term with the tree built so far in left
term_loop(p, left) ==
    CHOOSE out \in
      { LET t == pk.tok
        IN  IF t.type # "TOK_MUL" /\ t.type # "TOK_DIV"
            THEN Return([p EXCEPT !.ts = pk.ts], "parse_term", left)
            ELSE CHOOSE o \in
                   { IF right.p.error = 1
                     THEN Return(ast_free(ast_free(right.p, left), right.node),
                                 "parse_term", NULL)
                     ELSE CHOOSE o2 \in
                            { IF b.m.exited THEN [p |-> b.m, node |-> NULL]
                              ELSE term_loop(b.m, b.node)
                              : b \in {MakeBinary(right.p,
                                                  IF t.type = "TOK_MUL" THEN "OP_MUL"
                                                                        ELSE "OP_DIV",
                                                  left, right.node)} } : TRUE
                     : right \in {parse_factor([p EXCEPT !.ts = lexer_next(pk.ts).ts])} }
                   : TRUE
        : pk \in {lexer_peek(p.ts)} } : TRUE

\* term -> factor (('*' | '/') factor)*
parse_term(p) ==
    IF p.error = 1 THEN Return(p, "parse_term", NULL)
    ELSE CHOOSE out \in
           { IF left.p.error = 1
             THEN Return(ast_free(left.p, left.node), "parse_term", NULL)
             ELSE term_loop(left.p, left.node)
             : left \in {parse_factor(p)} } : TRUE

\* the for (;;) loop of parse_expr with the tree built so far in left
expr_loop(p, left) ==
    CHOOSE out \in
      { LET t == pk.tok
        IN  IF t.type # "TOK_PLUS" /\ t.type # "TOK_MINUS"
            THEN Return([p EXCEPT !.ts = pk.ts], "parse_expr", left)
            ELSE CHOOSE o \in
                   { IF right.p.error = 1
                     THEN Return(ast_free(ast_free(right.p, left), right.node),
                                 "parse_expr", NULL)
                     ELSE CHOOSE o2 \in
                            { IF b.m.exited THEN [p |-> b.m, node |-> NULL]
                              ELSE expr_loop(b.m, b.node)
                              : b \in {MakeBinary(right.p,
                                                  IF t.type = "TOK_PLUS" THEN "OP_ADD"
                                                                         ELSE "OP_SUB",
                                                  left, right.node)} } : TRUE
                     : right \in {parse_term([p EXCEPT !.ts = lexer_next(pk.ts).ts])} }
                   : TRUE
        : pk \in {lexer_peek(p.ts)} } : TRUE

\* expr -> term (('+' | '-') term)*
parse_expr(p) ==
    IF p.error = 1 THEN Return(p, "parse_expr", NULL)
    ELSE CHOOSE out \in
           { IF left.p.error = 1
             THEN Return(ast_free(left.p, left.node), "parse_expr", NULL)
             ELSE expr_loop(left.p, left.node)
             : left \in {parse_term(p)} } : TRUE

\* parser_init
parser_init == [error |-> 0]

\* a plausible slip: the check for TOK_EOF after the expression left out
parser_parse_noeof(p) ==
    CHOOSE out \in
      { IF root.p.error = 1
        THEN Return(ast_free(root.p, root.node), "parser_parse", NULL)
        ELSE Return(root.p, "parser_parse", root.node)
        : root \in {parse_expr(p)} } : TRUE

\* parser_parse: the root, or NULL on error
parser_parse(p) ==
    CHOOSE out \in
      { IF root.p.error = 1
        THEN Return(ast_free(root.p, root.node), "parser_parse", NULL)
        ELSE LET pk == lexer_peek(root.p.ts)
                 q  == [root.p EXCEPT !.ts = pk.ts]
             IN  IF pk.tok.type # "TOK_EOF"
                 THEN Return(ast_free(parse_error(q), root.node), "parser_parse", NULL)
                 ELSE Return(q, "parser_parse", root.node)
        : root \in {parse_expr(p)} } : TRUE

\* no Parser initialised
ParIdle ==
    /\ parser = parser_init
    /\ parse_ret = [call |-> "none", node |-> NULL, trace |-> << >>,
                    exited |-> FALSE, n |-> 0]

(***************************************************************************)
(* The IRProgram buffer (ir.c): data holds capacity slots, the first count *)
(* of them written; malloc and realloc are taken to succeed (on failure    *)
(* the functions exit the process).                                        *)
(***************************************************************************)
IR_INITIAL_CAPACITY == 16

\* a slot malloc or realloc handed out and nothing has written yet
Indeterminate == [op |-> "INDETERMINATE"]

\* ir_program_init
ir_program_init ==
    [data     |-> [i \in 1..IR_INITIAL_CAPACITY |-> Indeterminate],
     count    |-> 0,
     capacity |-> IR_INITIAL_CAPACITY]

\* ir_program_free
ir_program_free == [data |-> << >>, count |-> 0, capacity |-> 0]

\* a plausible slip: the grown buffer taken from malloc, the old content not copied
ir_program_append_nocopy(p, instr) ==
    LET grown == IF p.count = p.capacity
                 THEN [p EXCEPT !.data     = [i \in 1..(p.capacity * 2) |-> Indeterminate],
                                !.capacity = p.capacity * 2]
                 ELSE p
    IN  [grown EXCEPT !.data[p.count + 1] = instr, !.count = p.count + 1]

\* ir_program_append on the buffer: realloc keeps the old slots and adds as
\* many new ones, then data[count++] = instr
ir_program_append_buf(p, instr) ==
    LET grown == IF p.count = p.capacity
                 THEN [p EXCEPT !.data     = @ \o [i \in 1..p.capacity |-> Indeterminate],
                                !.capacity = p.capacity * 2]
                 ELSE p
    IN  [grown EXCEPT !.data[p.count + 1] = instr, !.count = p.count + 1]

\* no IRProgram initialised
IrIdle == irp = ir_program_free /\ ir_log = << >>

ObjIdle == AstIdle /\ ParIdle /\ IrIdle

(***************************************************************************)
(* SpecAlu: one ALU call on sampled operands and incoming flags            *)
(***************************************************************************)
InitAlu ==
    /\ alu_a \in WordSamples /\ alu_b \in WordSamples /\ alu_f \in FlagSamples
    /\ alu_op = "none" /\ alu_result = WZero
    /\ MemIdle /\ CpuIdle /\ DrvIdle /\ LexIdle /\ ObjIdle

AluCall(op, r) ==
    /\ alu_op = "none"
    /\ alu_op' = op
    /\ alu_result' = r.result
    /\ alu_f' = r.f
    /\ UNCHANGED <<alu_a, alu_b, memVars, cpuVars, drvVars, lexVars, objVars>>

AluAdd == AluCall("add", alu_add(alu_a, alu_b, alu_f))
AluSub == AluCall("sub", alu_sub(alu_a, alu_b, alu_f))
AluMul == AluCall("mul", alu_mul(alu_a, alu_b, alu_f))
AluDiv == alu_b # WZero /\ AluCall("div", alu_div(alu_a, alu_b, alu_f))

NextAlu == AluAdd \/ AluSub \/ AluMul \/ AluDiv
SpecAlu == InitAlu /\ [][NextAlu]_vars

(***************************************************************************)
(* Reference arithmetic on limbs, used only to state the ALU claims        *)
(***************************************************************************)
\* a + b as a 33-bit value: the low word and the carry out of bit 31
WAddFull(a, b) ==
    LET l == a.lo + b.lo
        h == a.hi + b.hi + (l \div 65536)
    IN  [sum |-> W(h % 65536, l % 65536), carry |-> h \div 65536]

B01(p) == IF p THEN 1 ELSE 0

\* C9: after alu_add(a, b) the result is (a + b) mod 2^32, C is the carry out of
\* bit 31 (a + b >= 2^32), V = 1 iff a and b share a sign bit that the result
\* lacks, Z = 1 iff the result is 0, N is bit 31 of the result; and
\* 0x7FFFFFFF + 1 = 0x80000000 with Z=0 N=1 C=0 V=1, 0xFFFFFFFF + 1 = 0 with
\* Z=1 N=0 C=1 V=0.
C9_AluAdd ==
    alu_op = "add" =>
        LET s == WAddFull(alu_a, alu_b)
        IN  /\ alu_result = s.sum
            /\ alu_f.C = s.carry
            /\ alu_f.V = B01(Bit(alu_a, 31) = Bit(alu_b, 31)
                             /\ Bit(alu_result, 31) # Bit(alu_a, 31))
            /\ alu_f.Z = B01(alu_result = WZero)
            /\ alu_f.N = Bit(alu_result, 31)
            /\ (alu_a = W(32767, 65535) /\ alu_b = Wd(1)
                  => alu_result = W(32768, 0) /\ alu_f = Flags(0, 1, 0, 1))
            /\ (alu_a = W(65535, 65535) /\ alu_b = Wd(1)
                  => alu_result = WZero /\ alu_f = Flags(1, 0, 1, 0))

C9_Witness ==
    /\ alu_op = "add" /\ alu_a = W(32767, 65535) /\ alu_b = Wd(1)
    /\ alu_result = W(32768, 0) /\ alu_f.V = 1

\* C10: after alu_sub(a, b) the result is (a - b) mod 2^32, Z = 1 iff a = b,
\* C = 1 iff a >= b unsigned, V = 1 iff a and b differ in sign and the result's
\* sign differs from a's, N is bit 31 of the result; and 0 - 1 = 0xFFFFFFFF with
\* Z=0 N=1 C=0 V=0, 5 - 5 = 0 with Z=1 N=0 C=1 V=0.
C10_AluSub ==
    alu_op = "sub" =>
        /\ alu_result = WSubMod(alu_a, alu_b)
        /\ alu_f.Z = B01(alu_a = alu_b)
        /\ alu_f.C = B01(WGe(alu_a, alu_b))
        /\ alu_f.V = B01(Bit(alu_a, 31) # Bit(alu_b, 31)
                         /\ Bit(alu_result, 31) # Bit(alu_a, 31))
        /\ alu_f.N = Bit(alu_result, 31)
        /\ (alu_a = WZero /\ alu_b = Wd(1)
              => alu_result = W(65535, 65535) /\ alu_f = Flags(0, 1, 0, 0))
        /\ (alu_a = Wd(5) /\ alu_b = Wd(5)
              => alu_result = WZero /\ alu_f = Flags(1, 0, 1, 0))

C10_Witness ==
    /\ alu_op = "sub" /\ alu_a = WZero /\ alu_b = Wd(1)
    /\ alu_result = W(65535, 65535) /\ alu_f = Flags(0, 1, 0, 0)

\* C11: alu_add(a, b) and alu_add(b, a) give the same result and the same
\* Z, N, C and V.
C11_AddCommutes ==
    [][ (alu_op = "none" /\ alu_op' = "add")
        => (/\ alu_result' = alu_add(alu_b, alu_a, alu_f).result
            /\ alu_f' = alu_add(alu_b, alu_a, alu_f).f) ]_vars

C11_Witness ==
    /\ alu_op = "add" /\ alu_a = W(32767, 65535) /\ alu_b = W(32768, 1)
    /\ alu_result = WZero /\ alu_f = Flags(1, 0, 1, 0)

\* x * y by shift-and-add from the top bit of y: the low word, and whether the
\* product reaches 2^32
RECURSIVE RefMulLoop(_, _, _, _)
RefMulLoop(x, y, i, acc) ==
    CHOOSE out \in
        { IF i < 0 THEN st
          ELSE LET dbl == WAddFull(st.lo, st.lo)
                   add == IF Bit(y, i) = 1 THEN WAddFull(dbl.sum, x)
                          ELSE [sum |-> dbl.sum, carry |-> 0]
               IN  RefMulLoop(x, y, i - 1,
                              [lo  |-> add.sum,
                               ovf |-> st.ovf \/ dbl.carry = 1 \/ add.carry = 1])
          : st \in {acc} } : TRUE

RefMul(x, y) == RefMulLoop(x, y, 31, [lo |-> WZero, ovf |-> FALSE])

\* C12: for b # 0 the quotient q = alu_div(a, b) satisfies q * b + r = a with
\* 0 <= r < b (no wrap-around in q * b), Z and N are set from q, and C = V = 0.
C12_AluDiv ==
    alu_op = "div" =>
        LET p == RefMul(alu_result, alu_b)
        IN  /\ ~p.ovf
            /\ WGe(alu_a, p.lo)
            /\ WGt(alu_b, WSubMod(alu_a, p.lo))
            /\ alu_f = Flags(B01(alu_result = WZero), Bit(alu_result, 31), 0, 0)

\* 0xDEADBEEF / 5 = 0x2C89262F (remainder 4)
C12_Witness ==
    /\ alu_op = "div" /\ alu_a = W(57005, 48879) /\ alu_b = Wd(5)
    /\ alu_result = W(11401, 9775) /\ alu_f = ZeroFlags

\* C13: alu_mul(a, b) is (a * b) mod 2^32, Z = 1 iff the result is 0, N is
\* bit 31 of the result, and C = V = 0 whatever the flags were before.
C13_AluMul ==
    alu_op = "mul" =>
        /\ alu_result = RefMul(alu_a, alu_b).lo
        /\ alu_f = Flags(B01(alu_result = WZero), Bit(alu_result, 31), 0, 0)

\* 0xDEADBEEF * 0xFFFFFFFE = ...42A48222 (mod 2^32)
C13_Witness ==
    /\ alu_op = "mul" /\ alu_a = W(57005, 48879) /\ alu_b = W(65535, 65534)
    /\ alu_result = W(17060, 33314) /\ alu_f = ZeroFlags

(***************************************************************************)
(* SpecMem: any sequence of mem_write_word / mem_read_word calls on one    *)
(* Memory after mem_init, with a NULL Memory pointer among the inputs      *)
(***************************************************************************)
InitMem == AluIdle /\ MemIdle /\ CpuIdle /\ DrvIdle /\ LexIdle /\ ObjIdle

MemWrite ==
    \E present \in BOOLEAN, addr \in AddrSamples, value \in StoreSamples :
        LET r == mem_write_word(present, mem, addr, value)
        IN  /\ mem' = r.data
            /\ mem_op' = "write" /\ mem_addr' = addr
            /\ mem_rc' = r.rc
            /\ mem_last' = IF r.rc = "ok"
                           THEN [x \in DOMAIN mem_last \cup {WIndex(addr)} |->
                                    IF x = WIndex(addr) THEN value ELSE mem_last[x]]
                           ELSE mem_last
            /\ UNCHANGED <<mem_out, aluVars, cpuVars, drvVars, lexVars, objVars>>

MemRead ==
    \E present \in BOOLEAN, addr \in AddrSamples :
        LET r == mem_read_word(present, mem, addr, mem_out)
        IN  /\ mem_op' = "read" /\ mem_addr' = addr
            /\ mem_rc' = r.rc
            /\ mem_out' = r.out
            /\ UNCHANGED <<mem, mem_last, aluVars, cpuVars, drvVars, lexVars, objVars>>

NextMem == MemWrite \/ MemRead
SpecMem == InitMem /\ [][NextMem]_vars

\* the claims' own arithmetic: addr mod 4 = 0, addr <= MEM_SIZE - 4
Aligned(addr) == addr.lo % 4 = 0
InRange(addr) == addr.hi = 0 /\ addr.lo <= MEM_SIZE - 4

\* C6: a word written to an aligned in-range address is read back, also after
\* any later writes to other aligned addresses: every address ever written
\* successfully reads (successfully) as the last word written there.
C6_WriteReadRoundTrip ==
    /\ \A x \in DOMAIN mem_last :
          mem_read_word(TRUE, mem, Wd(x), WZero) = [rc |-> "ok", out |-> mem_last[x]]
    /\ (mem_op = "write" /\ mem_rc # "NullMemory"
          /\ Aligned(mem_addr) /\ InRange(mem_addr))
          => mem_rc = "ok" /\ WIndex(mem_addr) \in DOMAIN mem_last
    /\ (mem_op = "read" /\ mem_rc # "NullMemory"
          /\ Aligned(mem_addr) /\ InRange(mem_addr))
          => /\ mem_rc = "ok"
             /\ WIndex(mem_addr) \in DOMAIN mem_last
                   => mem_out = mem_last[WIndex(mem_addr)]

\* a read returned 0xDEADBEEF from address 0 although address 4 was written later
C6_Witness ==
    /\ mem_op = "read" /\ mem_rc = "ok" /\ mem_addr = WZero
    /\ mem_out = W(57005, 48879)
    /\ 4 \in DOMAIN mem_last /\ mem_last[4] = W(258, 772)

\* byte k of v: (v >> 8k) AND 0xFF, on the limbs
RefByte(v, k) ==
    CASE k = 0 -> v.lo % 256
      [] k = 1 -> v.lo \div 256
      [] k = 2 -> v.hi % 256
      [] k = 3 -> v.hi \div 256

\* C7: after a successful mem_write_word(addr, v) the byte at addr + k is
\* (v >> 8k) AND 0xFF for k = 0..3, and a successful mem_read_word returns
\* byte0 + 2^8 byte1 + 2^16 byte2 + 2^24 byte3 of the bytes at addr .. addr+3.
C7_LittleEndian ==
    /\ \A x \in DOMAIN mem_last : \A k \in 0 .. 3 :
          MemByte(mem, x + k) = RefByte(mem_last[x], k)
    /\ (mem_op = "write" /\ mem_rc = "ok")
          => WIndex(mem_addr) \in DOMAIN mem_last
    /\ (mem_op = "read" /\ mem_rc = "ok")
          => LET i == WIndex(mem_addr)
             IN  mem_out = W(MemByte(mem, i + 2) + 256 * MemByte(mem, i + 3),
                             MemByte(mem, i)     + 256 * MemByte(mem, i + 1))

\* 0x01020304 was written at 0xFFFC: bytes 04 03 02 01
C7_Witness ==
    /\ mem_op = "write" /\ mem_rc = "ok"
    /\ mem_addr = Wd(65532) /\ mem_last[65532] = W(258, 772)
    /\ MemByte(mem, 65532) = 4 /\ MemByte(mem, 65535) = 1

\* C8: with a Memory present, mem_read_word and mem_write_word succeed exactly
\* when addr mod 4 = 0 and addr <= MEM_SIZE - 4 over the whole 32-bit range;
\* an unaligned address gives AlignmentError, an aligned one above MEM_SIZE - 4
\* BoundsError; 0x102 -> AlignmentError, 0x10000 -> BoundsError, 0xFFFC -> ok.
C8_AccessCheck ==
    (mem_op # "none" /\ mem_rc # "NullMemory") =>
        /\ mem_rc = "ok" <=> (Aligned(mem_addr) /\ InRange(mem_addr))
        /\ ~Aligned(mem_addr) => mem_rc = "AlignmentError"
        /\ (Aligned(mem_addr) /\ ~InRange(mem_addr)) => mem_rc = "BoundsError"
        /\ mem_addr = Wd(258)   => mem_rc = "AlignmentError"
        /\ mem_addr = Wd(65536) => mem_rc = "BoundsError"
        /\ mem_addr = Wd(65532) => mem_rc = "ok"
        /\ mem_addr = W(65535, 65532) => mem_rc = "BoundsError"

\* a read at 0xFFFFFFFC (aligned, addr + 4 wraps to 0) was refused
C8_Witness ==
    /\ mem_op = "read" /\ mem_addr = W(65535, 65532) /\ mem_rc = "BoundsError"

(***************************************************************************)
(* CPU (cpu.c): cpu_execute as a state machine, one action per opcode of   *)
(* the dispatch switch.  CPU_MAX_STEPS is 1000000 in cpu.h; the model      *)
(* scales the watchdog down so that a looping program reaches it.          *)
(***************************************************************************)
CPU_MAX_STEPS == 40

\* check_reg / check_target: TRUE for return 0
check_reg(r) == ~(r < 0 \/ r >= CPU_MAX_REGS)

\* a plausible slip: the upper limit taken from a buffer capacity, not the count
check_target_lax(target, prog_count) == ~(target < 0 \/ target > prog_count + 16)

\* a plausible slip: the target compared like an index into the program
check_target_strict(target, prog_count) == ~(target < 0 \/ target >= prog_count)

check_target(target, prog_count) == ~(target < 0 \/ target > prog_count)

\* a plausible slip: the watchdog one step late
StepGuard_late(n) == n > CPU_MAX_STEPS + 1

\* a plausible slip: the watchdog one step early
StepGuard_early(n) == n >= CPU_MAX_STEPS

\* ++step_count > CPU_MAX_STEPS
StepGuard(n) == n > CPU_MAX_STEPS

\* what every step of cpu_execute leaves alone
CpuFrame == <<prog, prog_null, mem_attached, out_attached, mem0, calls, ast,
              eval_result, cgVars, aluVars, memHarness, lexVars, objVars>>

\* the instruction at prog->data[cpu.pc]
Fetch == prog[pc + 1]

\* a plausible slip: the watchdog counting only what is not a branch
Dispatch_branchfree(op) ==
    /\ status = "running"
    /\ pc < Len(prog)
    /\ ~StepGuard(step_count + 1)
    /\ Fetch.op = op
    /\ step_count' = IF op \in {"IR_JMP", "IR_JZ", "IR_JNZ"} THEN step_count
                     ELSE step_count + 1
    /\ dispatched' = dispatched + 1
    /\ UNCHANGED CpuFrame

\* the loop body is entered, the watchdog passes, and the switch selects op
Dispatch(op) ==
    /\ status = "running"
    /\ pc < Len(prog)
    /\ ~StepGuard(step_count + 1)
    /\ Fetch.op = op
    /\ step_count' = step_count + 1
    /\ dispatched' = dispatched + 1
    /\ UNCHANGED CpuFrame

\* return -1 after the diagnostic e; nothing else is written
Fail(e) ==
    /\ status' = "error" /\ err' = e
    /\ UNCHANGED <<regs, flags, pc, last_dst, mem, stores, out_result>>

\* a plausible slip: cpu.pc++ run also after a jump has written pc
Next_pc_nojumped(jumped, target) ==
    /\ pc' = IF jumped THEN target + 1 ELSE pc + 1
    /\ UNCHANGED <<status, err, out_result>>

\* break out of the switch and run "if (!jumped) cpu.pc++"
Next_pc(jumped, target) ==
    /\ pc' = IF jumped THEN target ELSE pc + 1
    /\ UNCHANGED <<status, err, out_result>>

\* a plausible slip: an immediate that does not fit 32 bits clamped, not truncated
ExecLoadConst_saturate ==
    /\ Dispatch("IR_LOAD_CONST")
    /\ IF ~check_reg(Fetch.dst) THEN Fail("RegisterOutOfRange")
       ELSE /\ regs' = [regs EXCEPT ![Fetch.dst] =
                           IF Fetch.imm.h > 0 THEN W(65535, 65535)
                           ELSE IF Fetch.imm.h < -1 THEN WZero
                           ELSE LongToWord(Fetch.imm)]
            /\ last_dst' = Fetch.dst
            /\ Next_pc(FALSE, 0)
            /\ UNCHANGED <<flags, mem, stores>>

\* a plausible slip: LOAD_CONST validating src as the arithmetic cases do
ExecLoadConst_checksrc ==
    /\ Dispatch("IR_LOAD_CONST")
    /\ IF ~check_reg(Fetch.dst) \/ ~check_reg(Fetch.src) THEN Fail("RegisterOutOfRange")
       ELSE /\ regs' = [regs EXCEPT ![Fetch.dst] = LongToWord(Fetch.imm)]
            /\ last_dst' = Fetch.dst
            /\ Next_pc(FALSE, 0)
            /\ UNCHANGED <<flags, mem, stores>>

ExecLoadConst ==
    /\ Dispatch("IR_LOAD_CONST")
    /\ IF ~check_reg(Fetch.dst) THEN Fail("RegisterOutOfRange")
       ELSE /\ regs' = [regs EXCEPT ![Fetch.dst] = LongToWord(Fetch.imm)]
            /\ last_dst' = Fetch.dst
            /\ Next_pc(FALSE, 0)
            /\ UNCHANGED <<flags, mem, stores>>

\* R[dst] = R[dst] + R[src], flags from the ALU
ExecAdd ==
    /\ Dispatch("IR_ADD")
    /\ IF ~check_reg(Fetch.dst) \/ ~check_reg(Fetch.src) THEN Fail("RegisterOutOfRange")
       ELSE \E r \in {alu_add(regs[Fetch.dst], regs[Fetch.src], flags)} :
                /\ regs' = [regs EXCEPT ![Fetch.dst] = r.result]
                /\ flags' = r.f
                /\ last_dst' = Fetch.dst
                /\ Next_pc(FALSE, 0)
                /\ UNCHANGED <<mem, stores>>

\* a plausible slip: the operands passed to the ALU in the order src, dst
ExecSub_swapped ==
    /\ Dispatch("IR_SUB")
    /\ IF ~check_reg(Fetch.dst) \/ ~check_reg(Fetch.src) THEN Fail("RegisterOutOfRange")
       ELSE \E r \in {alu_sub(regs[Fetch.src], regs[Fetch.dst], flags)} :
                /\ regs' = [regs EXCEPT ![Fetch.dst] = r.result]
                /\ flags' = r.f
                /\ last_dst' = Fetch.dst
                /\ Next_pc(FALSE, 0)
                /\ UNCHANGED <<mem, stores>>

\* R[dst] = R[dst] - R[src], flags from the ALU
ExecSub ==
    /\ Dispatch("IR_SUB")
    /\ IF ~check_reg(Fetch.dst) \/ ~check_reg(Fetch.src) THEN Fail("RegisterOutOfRange")
       ELSE \E r \in {alu_sub(regs[Fetch.dst], regs[Fetch.src], flags)} :
                /\ regs' = [regs EXCEPT ![Fetch.dst] = r.result]
                /\ flags' = r.f
                /\ last_dst' = Fetch.dst
                /\ Next_pc(FALSE, 0)
                /\ UNCHANGED <<mem, stores>>

\* R[dst] = R[dst] * R[src], flags from the ALU
ExecMul ==
    /\ Dispatch("IR_MUL")
    /\ IF ~check_reg(Fetch.dst) \/ ~check_reg(Fetch.src) THEN Fail("RegisterOutOfRange")
       ELSE \E r \in {alu_mul(regs[Fetch.dst], regs[Fetch.src], flags)} :
                /\ regs' = [regs EXCEPT ![Fetch.dst] = r.result]
                /\ flags' = r.f
                /\ last_dst' = Fetch.dst
                /\ Next_pc(FALSE, 0)
                /\ UNCHANGED <<mem, stores>>

\* a plausible slip: the zero test on the dividend R[dst]
ExecDiv_testdst ==
    /\ Dispatch("IR_DIV")
    /\ IF ~check_reg(Fetch.dst) \/ ~check_reg(Fetch.src) THEN Fail("RegisterOutOfRange")
       ELSE IF regs[Fetch.dst] = WZero THEN Fail("DivisionByZero")
       ELSE \E r \in {alu_div(regs[Fetch.dst], regs[Fetch.src], flags)} :
                /\ regs' = [regs EXCEPT ![Fetch.dst] = r.result]
                /\ flags' = r.f
                /\ last_dst' = Fetch.dst
                /\ Next_pc(FALSE, 0)
                /\ UNCHANGED <<mem, stores>>

ExecDiv ==
    /\ Dispatch("IR_DIV")
    /\ IF ~check_reg(Fetch.dst) \/ ~check_reg(Fetch.src) THEN Fail("RegisterOutOfRange")
       ELSE IF regs[Fetch.src] = WZero THEN Fail("DivisionByZero")
       ELSE \E r \in {alu_div(regs[Fetch.dst], regs[Fetch.src], flags)} :
                /\ regs' = [regs EXCEPT ![Fetch.dst] = r.result]
                /\ flags' = r.f
                /\ last_dst' = Fetch.dst
                /\ Next_pc(FALSE, 0)
                /\ UNCHANGED <<mem, stores>>

\* a plausible slip: CMP computing the difference into a scratch flags record
ExecCmp_stale ==
    /\ Dispatch("IR_CMP")
    /\ IF ~check_reg(Fetch.dst) \/ ~check_reg(Fetch.src) THEN Fail("RegisterOutOfRange")
       ELSE /\ Next_pc(FALSE, 0)
            /\ UNCHANGED <<regs, flags, last_dst, mem, stores>>

\* a plausible slip: CMP recording its dst operand as the last destination
ExecCmp_lastdst ==
    /\ Dispatch("IR_CMP")
    /\ IF ~check_reg(Fetch.dst) \/ ~check_reg(Fetch.src) THEN Fail("RegisterOutOfRange")
       ELSE /\ flags' = alu_sub(regs[Fetch.dst], regs[Fetch.src], flags).f
            /\ last_dst' = Fetch.dst
            /\ Next_pc(FALSE, 0)
            /\ UNCHANGED <<regs, mem, stores>>

\* a plausible slip: CMP as a copy of SUB that still writes the difference
ExecCmp_writes ==
    /\ Dispatch("IR_CMP")
    /\ IF ~check_reg(Fetch.dst) \/ ~check_reg(Fetch.src) THEN Fail("RegisterOutOfRange")
       ELSE \E r \in {alu_sub(regs[Fetch.dst], regs[Fetch.src], flags)} :
                /\ regs' = [regs EXCEPT ![Fetch.dst] = r.result]
                /\ flags' = r.f
                /\ Next_pc(FALSE, 0)
                /\ UNCHANGED <<last_dst, mem, stores>>

ExecCmp ==
    /\ Dispatch("IR_CMP")
    /\ IF ~check_reg(Fetch.dst) \/ ~check_reg(Fetch.src) THEN Fail("RegisterOutOfRange")
       ELSE /\ flags' = alu_sub(regs[Fetch.dst], regs[Fetch.src], flags).f
            /\ Next_pc(FALSE, 0)
            /\ UNCHANGED <<regs, last_dst, mem, stores>>

\* IR_JMP, and IR_JZ / IR_JNZ: the target is validated only when the branch is taken
ExecBranch(op, taken) ==
    /\ Dispatch(op)
    /\ IF taken
       THEN IF ~check_target(Fetch.target, Len(prog)) THEN Fail("BranchOutOfRange")
            ELSE /\ Next_pc(TRUE, Fetch.target)
                 /\ UNCHANGED <<regs, flags, last_dst, mem, stores>>
       ELSE /\ Next_pc(FALSE, 0)
            /\ UNCHANGED <<regs, flags, last_dst, mem, stores>>

ExecJmp == ExecBranch("IR_JMP", TRUE)

\* a plausible slip: "no borrow" taken for "equal"
ExecJz_carry == ExecBranch("IR_JZ", flags.C # 0)

ExecJz  == ExecBranch("IR_JZ",  flags.Z # 0)
ExecJnz == ExecBranch("IR_JNZ", flags.Z = 0)

\* a plausible slip: the Memory test ahead of the register checks
ExecLoad_memfirst ==
    /\ Dispatch("IR_LOAD")
    /\ IF ~mem_attached THEN Fail("MemoryNotAttached")
       ELSE IF ~check_reg(Fetch.dst) \/ ~check_reg(Fetch.addr)
       THEN Fail("RegisterOutOfRange")
       ELSE \E r \in {mem_read_word(TRUE, mem, regs[Fetch.addr], WZero)} :
                IF r.rc # "ok" THEN Fail(r.rc)
                ELSE /\ regs' = [regs EXCEPT ![Fetch.dst] = r.out]
                     /\ last_dst' = Fetch.dst
                     /\ Next_pc(FALSE, 0)
                     /\ UNCHANGED <<flags, mem, stores>>

ExecLoad ==
    /\ Dispatch("IR_LOAD")
    /\ IF ~check_reg(Fetch.dst) \/ ~check_reg(Fetch.addr) THEN Fail("RegisterOutOfRange")
       ELSE IF ~mem_attached THEN Fail("MemoryNotAttached")
       ELSE \E r \in {mem_read_word(TRUE, mem, regs[Fetch.addr], WZero)} :
                IF r.rc # "ok" THEN Fail(r.rc)
                ELSE /\ regs' = [regs EXCEPT ![Fetch.dst] = r.out]
                     /\ last_dst' = Fetch.dst
                     /\ Next_pc(FALSE, 0)
                     /\ UNCHANGED <<flags, mem, stores>>

\* a plausible slip: the value taken from R[dst] (the operand order of the
\* arithmetic instructions) instead of R[src]
ExecStore_dst ==
    /\ Dispatch("IR_STORE")
    /\ IF ~check_reg(Fetch.src) \/ ~check_reg(Fetch.addr) THEN Fail("RegisterOutOfRange")
       ELSE IF ~mem_attached THEN Fail("MemoryNotAttached")
       ELSE \E r \in {mem_write_word(TRUE, mem, regs[Fetch.addr], regs[Fetch.dst])} :
                /\ mem' = r.data
                /\ IF r.rc # "ok"
                   THEN /\ status' = "error" /\ err' = r.rc
                        /\ UNCHANGED <<regs, flags, pc, last_dst, stores, out_result>>
                   ELSE /\ stores' = Append(stores, <<regs[Fetch.addr], regs[Fetch.src]>>)
                        /\ Next_pc(FALSE, 0)
                        /\ UNCHANGED <<regs, flags, last_dst>>

\* mem_write_word works on the caller's Memory in place: what it did to the
\* bytes stays, whatever it returns
ExecStore ==
    /\ Dispatch("IR_STORE")
    /\ IF ~check_reg(Fetch.src) \/ ~check_reg(Fetch.addr) THEN Fail("RegisterOutOfRange")
       ELSE IF ~mem_attached THEN Fail("MemoryNotAttached")
       ELSE \E r \in {mem_write_word(TRUE, mem, regs[Fetch.addr], regs[Fetch.src])} :
                /\ mem' = r.data
                /\ IF r.rc # "ok"
                   THEN /\ status' = "error" /\ err' = r.rc
                        /\ UNCHANGED <<regs, flags, pc, last_dst, stores, out_result>>
                   ELSE /\ stores' = Append(stores, <<regs[Fetch.addr], regs[Fetch.src]>>)
                        /\ Next_pc(FALSE, 0)
                        /\ UNCHANGED <<regs, flags, last_dst>>

\* default: of the switch
ExecUnknown ==
    /\ status = "running" /\ pc < Len(prog) /\ ~StepGuard(step_count + 1)
    /\ Fetch.op \notin Opcodes
    /\ step_count' = step_count + 1 /\ dispatched' = dispatched + 1
    /\ UNCHANGED CpuFrame
    /\ Fail("UnknownOpcode")

\* the watchdog trips before the instruction is fetched
GuardTrip ==
    /\ status = "running" /\ pc < Len(prog)
    /\ StepGuard(step_count + 1)
    /\ step_count' = step_count + 1
    /\ Fail("InfiniteLoopGuard")
    /\ UNCHANGED <<dispatched, CpuFrame>>

\* a plausible slip: the result widened without the int32_t cast
CpuReturn_unsigned ==
    /\ status = "running" /\ ~(pc < Len(prog))
    /\ out_result' = IF out_attached
                     THEN [written |-> TRUE, value |-> L(0, regs[last_dst])]
                     ELSE out_result
    /\ status' = "ok"
    /\ UNCHANGED <<err, regs, flags, pc, last_dst, step_count, mem, stores,
                   dispatched, CpuFrame>>

\* the loop ends: *out_result = (long)(int32_t)cpu.regs[last_dst]; return 0
CpuReturn ==
    /\ status = "running" /\ ~(pc < Len(prog))
    /\ out_result' = IF out_attached
                     THEN [written |-> TRUE, value |-> WordToLong(regs[last_dst])]
                     ELSE out_result
    /\ status' = "ok"
    /\ UNCHANGED <<err, regs, flags, pc, last_dst, step_count, mem, stores,
                   dispatched, CpuFrame>>

\* a plausible slip: the CPU kept in a static object and not cleared per call
cpu_execute_entry_stale(p, p_null, m_attached, o_attached) ==
    /\ prog' = p /\ prog_null' = p_null
    /\ mem_attached' = m_attached /\ out_attached' = o_attached
    /\ out_result' = NoResult
    /\ calls' = calls + 1
    /\ mem0' = mem' /\ stores' = << >> /\ dispatched' = 0
    /\ IF p_null \/ Len(p) = 0
       THEN /\ status' = "error" /\ err' = "EmptyProgram"
            /\ UNCHANGED <<regs, flags, pc, last_dst, step_count>>
       ELSE /\ status' = "running" /\ err' = "None"
            /\ pc' = 0 /\ last_dst' = 0 /\ step_count' = 0
            /\ UNCHANGED <<regs, flags>>

\* a plausible slip: the test for an empty program left out, so that
\* pc = count = 0 ends the loop at once like a normal run
cpu_execute_entry_emptyok(p, p_null, m_attached, o_attached) ==
    /\ prog' = p /\ prog_null' = p_null
    /\ mem_attached' = m_attached /\ out_attached' = o_attached
    /\ out_result' = NoResult
    /\ calls' = calls + 1
    /\ mem0' = mem' /\ stores' = << >> /\ dispatched' = 0
    /\ status' = "running" /\ err' = "None"
    /\ regs' = ZeroRegs /\ flags' = ZeroFlags /\ pc' = 0
    /\ last_dst' = 0 /\ step_count' = 0

\* cpu_execute up to the loop: the empty-program test, memset(&cpu, 0), cpu.mem = mem.
\* The caller hands over a program (or NULL), a Memory (or NULL) and out_result.
cpu_execute_entry(p, p_null, m_attached, o_attached) ==
    /\ prog' = p /\ prog_null' = p_null
    /\ mem_attached' = m_attached /\ out_attached' = o_attached
    /\ out_result' = NoResult
    /\ calls' = calls + 1
    /\ mem0' = mem' /\ stores' = << >> /\ dispatched' = 0
    /\ IF p_null \/ Len(p) = 0
       THEN /\ status' = "error" /\ err' = "EmptyProgram"
            /\ UNCHANGED <<regs, flags, pc, last_dst, step_count>>
       ELSE /\ status' = "running" /\ err' = "None"
            /\ regs' = ZeroRegs /\ flags' = ZeroFlags /\ pc' = 0
            /\ last_dst' = 0 /\ step_count' = 0

(***************************************************************************)
(* Callers of cpu_execute (main.c): hand-written IR programs, as the demos *)
(* of main.c build them, and the pipeline eval -> codegen -> cpu_execute.  *)
(***************************************************************************)
MaxProgLen == 2
MaxLeaves  == 3

Ins(op, dst, src, imm, target, addr) == IRInstr(op, dst, src, LongOf(imm), target, addr)

\* LOAD_CONST R0, a ; LOAD_CONST R1, b
Setup(a, b) == << Ins("IR_LOAD_CONST", 0, 0, a, 0, 0), Ins("IR_LOAD_CONST", 1, 0, b, 0, 0) >>

SetupSamples == { <<4, 7>>, <<5, 5>>, <<258, 7>> }

\* one instruction of every opcode, with legal and illegal operands
InstrSamples ==
    { Ins("IR_LOAD_CONST", 32, 0, 1, 0, 0),
      Ins("IR_ADD", 0, 1, 0, 0, 0),  Ins("IR_ADD", 0, -1, 0, 0, 0),
      Ins("IR_SUB", 0, 1, 0, 0, 0),  Ins("IR_MUL", 0, 1, 0, 0, 0),
      Ins("IR_DIV", 0, 1, 0, 0, 0),  Ins("IR_DIV", 0, 2, 0, 0, 0),
      Ins("IR_CMP", 0, 1, 0, 0, 0),
      Ins("IR_JMP", 0, 0, 0, 0, 0),  Ins("IR_JMP", 0, 0, 0, 4, 0),
      Ins("IR_JMP", 0, 0, 0, -1, 0),
      Ins("IR_JZ", 0, 0, 0, 9, 0),   Ins("IR_JNZ", 0, 0, 0, 9, 0),
      Ins("IR_LOAD", 2, 0, 0, 0, 0), Ins("IR_STORE", 0, 1, 0, 0, 0),
      Ins("IR_INVALID", 0, 0, 0, 0, 0) }

RECURSIVE Tails(_)
Tails(n) ==
    IF n = 0 THEN { << >> }
    ELSE LET shorter == Tails(n - 1)
         IN  shorter \cup { Append(t, i) : t \in { u \in shorter : Len(u) = n - 1 },
                                           i \in InstrSamples }

\* run_branch_demo with R1 = a, R2 = b
BranchDemo(a, b) ==
    << Ins("IR_LOAD_CONST", 1, 0, a, 0, 0),  Ins("IR_LOAD_CONST", 2, 0, b, 0, 0),
       Ins("IR_CMP", 1, 2, 0, 0, 0),         Ins("IR_JZ", 0, 0, 0, 6, 0),
       Ins("IR_LOAD_CONST", 3, 0, 99, 0, 0), Ins("IR_JMP", 0, 0, 0, 7, 0),
       Ins("IR_LOAD_CONST", 3, 0, 42, 0, 0) >>

\* run_loop_demo
LoopDemo ==
    << Ins("IR_LOAD_CONST", 0, 0, 5, 0, 0), Ins("IR_LOAD_CONST", 1, 0, 1, 0, 0),
       Ins("IR_SUB", 0, 1, 0, 0, 0),        Ins("IR_JNZ", 0, 0, 0, 2, 0) >>

\* run_memory_demo: store/load of 42 at 0x100, round trip of 0xDEADBEEF at 0x200,
\* the unaligned store at 0x102 and the load at 0x10000
MemDemo42 ==
    << Ins("IR_LOAD_CONST", 1, 0, 256, 0, 0), Ins("IR_LOAD_CONST", 2, 0, 42, 0, 0),
       Ins("IR_STORE", 0, 2, 0, 0, 1),        Ins("IR_LOAD", 3, 0, 0, 0, 1) >>

MemDemoRoundTrip ==
    << Ins("IR_LOAD_CONST", 0, 0, 512, 0, 0),
       IRInstr("IR_LOAD_CONST", 1, 0, L(0, W(57005, 48879)), 0, 0),
       Ins("IR_STORE", 0, 1, 0, 0, 0),        Ins("IR_LOAD", 2, 0, 0, 0, 0) >>

MemDemoUnaligned ==
    << Ins("IR_LOAD_CONST", 0, 0, 258, 0, 0), Ins("IR_LOAD_CONST", 1, 0, 7, 0, 0),
       Ins("IR_STORE", 0, 1, 0, 0, 0) >>

MemDemoOutOfBounds ==
    << Ins("IR_LOAD_CONST", 0, 0, 65536, 0, 0), Ins("IR_LOAD", 1, 0, 0, 0, 0) >>

Demos == { BranchDemo(3, 3), BranchDemo(3, 5), LoopDemo, MemDemo42, MemDemoRoundTrip,
           MemDemoUnaligned, MemDemoOutOfBounds }

\* the programs every kind of call is tried on; the enumerated ones below are
\* run with a fresh Memory and an out-parameter
HandWritten == { << >> } \cup Demos

Programs ==
    HandWritten \cup
    { Setup(ab[1], ab[2]) \o t : ab \in SetupSamples, t \in Tails(MaxProgLen) }

\* the Memory argument: NULL, a Memory after mem_init, or one written to before
MemPreloaded == mem_write_word(TRUE, mem_init, Wd(4), W(258, 772)).data

MemArg(m) == IF m = "preloaded" THEN MemPreloaded ELSE mem_init

CallSamples == { [m |-> "NULL", o |-> TRUE], [m |-> "fresh", o |-> TRUE],
                 [m |-> "preloaded", o |-> FALSE] }

\* expression trees as parser_parse builds them: NUMBER leaves are non-negative
LeafSamples == { 0, 2, 10 }

RECURSIVE Trees(_)
Trees(n) ==
    IF n = 1 THEN { Num(LongOf(v)) : v \in LeafSamples }
    ELSE UNION { { Bin(op, l, r) : op \in BinaryOps, l \in Trees(k), r \in Trees(n - k) }
                 : k \in 1 .. (n - 1) }

\* the expressions of the Makefile's test target: 3+4, 3+4*2, (3+4)*2
Tree_3p4 == Bin("OP_ADD", Num(LongOf(3)), Num(LongOf(4)))

Tree_3p4m2 ==
    Bin("OP_ADD", Num(LongOf(3)), Bin("OP_MUL", Num(LongOf(4)), Num(LongOf(2))))

Tree_3p4_m2 ==
    Bin("OP_MUL", Bin("OP_ADD", Num(LongOf(3)), Num(LongOf(4))), Num(LongOf(2)))

TreeSamples ==
    UNION { Trees(n) : n \in 1 .. MaxLeaves } \cup { Tree_3p4, Tree_3p4m2, Tree_3p4_m2 }

Init == AluIdle /\ MemIdle /\ CpuIdle /\ DrvIdle /\ LexIdle /\ ObjIdle

\* a caller builds a program by hand and calls cpu_execute(&prog, mem, &result),
\* or passes NULL for the program
CpuCall ==
    /\ status = "idle" /\ calls = 0 /\ ast = NoTree
    /\ \E p \in Programs, c \in CallSamples, p_null \in BOOLEAN :
         /\ p_null => (p = << >> /\ c.m = "NULL")
         /\ p \notin HandWritten => c = [m |-> "fresh", o |-> TRUE]
         /\ mem' = MemArg(c.m)
         /\ cpu_execute_entry(p, p_null, c.m # "NULL", c.o)
    /\ UNCHANGED <<ast, eval_result, cgVars, aluVars, memHarness, lexVars, objVars>>

\* main: eval(root); on EVAL_OK codegen_init, codegen_expr and
\* cpu_execute(&prog, NULL, &cpu_result); otherwise exit before the CPU runs
\* ir_program_init(&prog); codegen_init(&cg, &prog); codegen_expr(&cg, root)
Lower(root) ==
    \E r \in {codegen_expr(codegen_init(<< >>), root)} :
        /\ codegen' = r.cg
        /\ cg_reg' = r.reg
        /\ cg_runs' = cg_runs + 1
        /\ cg_first' = IF cg_runs = 0 THEN [prog |-> r.cg.prog, reg |-> r.reg]
                       ELSE cg_first

RunExpr ==
    /\ status = "idle" /\ calls = 0 /\ ast = NoTree
    /\ \E root \in TreeSamples :
         /\ ast' = root
         /\ eval_result' = eval(root)
         /\ IF eval_result'.status # "EVAL_OK"
            THEN UNCHANGED <<cpuVars, mem, mem0, stores, dispatched, calls, cgVars>>
            ELSE /\ mem' = mem_init
                 /\ Lower(root)
                 /\ cpu_execute_entry(codegen'.prog, FALSE, FALSE, TRUE)
    /\ UNCHANGED <<aluVars, memHarness, lexVars, objVars>>

CpuStep ==
    \/ ExecLoadConst \/ ExecAdd \/ ExecSub \/ ExecMul \/ ExecDiv \/ ExecCmp
    \/ ExecJmp \/ ExecJz \/ ExecJnz \/ ExecLoad \/ ExecStore \/ ExecUnknown
    \/ GuardTrip \/ CpuReturn

Next ==
    \/ CpuCall \/ RunExpr
    \/ ExecLoadConst \/ ExecAdd \/ ExecSub \/ ExecMul \/ ExecDiv \/ ExecCmp
    \/ ExecJmp \/ ExecJz \/ ExecJnz \/ ExecLoad \/ ExecStore \/ ExecUnknown
    \/ GuardTrip \/ CpuReturn

Spec == Init /\ [][Next]_vars

\* cpu_execute is sequential code: once called it keeps executing
FairSpec == Spec /\ WF_vars(CpuStep)

(***************************************************************************)
(* SpecCodegen: a caller that lowers a tree, and then a structurally equal *)
(* one again, each time from ir_program_init and codegen_init              *)
(***************************************************************************)
MaxRuns == 2

CgLower ==
    /\ status = "idle" /\ calls = 0 /\ eval_result = NoEval
    /\ cg_runs < MaxRuns
    /\ \E root \in (IF ast = NoTree THEN TreeSamples ELSE {ast}) :
         /\ ast' = root
         /\ Lower(root)
    /\ UNCHANGED <<aluVars, memVars, cpuVars, mem0, stores, dispatched, calls, eval_result,
                   lexVars, objVars>>

NextCodegen == CgLower
SpecCodegen == Init /\ [][NextCodegen]_vars

(***************************************************************************)
(* Claims about cpu_execute and the pipeline                               *)
(***************************************************************************)
\* v fits 32 bits, read as a signed or as an unsigned quantity
Fits32(x) == x.h = 0 \/ (x.h = -1 /\ Bit(x.w, 31) = 1)

\* C1 (as stated): for every tree of non-negative Number leaves and Add, Sub,
\* Mul, Div on which eval succeeds with a value v that fits 32 bits,
\* cpu_execute on the program codegen_expr emits succeeds and ends with
\* R[last_dst] = v mod 2^32.
C1_Claim ==
    (/\ ast # NoTree
     /\ eval_result.status = "EVAL_OK"
     /\ Fits32(eval_result.value)
     /\ status \in {"ok", "error"})
    => (status = "ok" /\ regs[last_dst] = LongToWord(eval_result.value))

\* the bytes of m overwritten by one completed store <<addr, value>>, written
\* out from the little-endian layout and not through mem_write_word
RefStore(m, st) ==
    LET i     == st[1].hi * 65536 + st[1].lo
        at(x) == IF x \in i .. i + 3 THEN RefByte(st[2], x - i)
                 ELSE IF x \in DOMAIN m THEN m[x] ELSE 0
    IN  [x \in {y \in DOMAIN m \cup (i .. i + 3) : at(y) # 0} |-> at(x)]

RECURSIVE RefStores(_, _)
RefStores(m, ss) ==
    IF ss = << >> THEN m ELSE RefStores(RefStore(m, Head(ss)), Tail(ss))

\* C2 (amended): when cpu_execute returns an error the out-parameter is not
\* written, and the borrowed Memory differs from its content at the call only
\* by the Store instructions completed before the failing instruction; the
\* failing instruction itself writes nothing.
C2_ErrorState ==
    status = "error" =>
        (out_result.written = FALSE /\ mem = RefStores(mem0, stores))

C2_Witness ==
    /\ status = "error" /\ err = "DivisionByZero"
    /\ Len(stores) = 1 /\ mem # mem0 /\ out_result.written = FALSE

\* C2 (as stated): on an error return the out-parameter is not written and the
\* Memory holds exactly the bytes it held when the call began.
C2_Claim ==
    status = "error" => (out_result.written = FALSE /\ mem = mem0)

\* C3 (amended): a Jmp, or a Jz / Jnz whose condition holds, with a target
\* outside [0, program.length] makes cpu_execute fail with BranchOutOfRange,
\* and with a target inside it sets pc to the target; so in every successful
\* run each taken branch has 0 <= target <= program.length.
C3_TakenBranchChecked ==
    [][ (/\ status = "running" /\ pc < Len(prog)
         /\ dispatched' = dispatched + 1
         /\ \/ Fetch.op = "IR_JMP"
            \/ Fetch.op = "IR_JZ"  /\ flags.Z # 0
            \/ Fetch.op = "IR_JNZ" /\ flags.Z = 0)
        => IF Fetch.target < 0 \/ Fetch.target > Len(prog)
           THEN status' = "error" /\ err' = "BranchOutOfRange"
           ELSE status' = "running" /\ pc' = Fetch.target ]_vars

C3_Witness ==
    /\ status = "error" /\ err = "BranchOutOfRange"
    /\ prog[pc + 1].op = "IR_JZ" /\ prog[pc + 1].target > Len(prog)

\* C3 (as stated): whenever a Jmp, Jz or Jnz with a target outside
\* [0, program.length] is executed, cpu_execute fails with BranchOutOfRange.
C3_Claim ==
    [][ (/\ status = "running" /\ pc < Len(prog)
         /\ dispatched' = dispatched + 1
         /\ Fetch.op \in {"IR_JMP", "IR_JZ", "IR_JNZ"}
         /\ (Fetch.target < 0 \/ Fetch.target > Len(prog)))
        => (status' = "error" /\ err' = "BranchOutOfRange") ]_vars

\* C4: every call of cpu_execute returns, with success when pc reaches
\* program.length or with an error (the step guard included), and it never
\* dispatches more than CPU_MAX_STEPS instructions.
C4_Terminates ==
    /\ [](dispatched <= CPU_MAX_STEPS)
    /\ (status = "running") ~> (status \in {"ok", "error"})

C4_Witness ==
    /\ status = "error" /\ err = "InfiniteLoopGuard"
    /\ dispatched = CPU_MAX_STEPS /\ step_count = CPU_MAX_STEPS + 1

\* C5: the flags are all zero until an Add, Sub, Mul, Div or Cmp executes;
\* each of those sets them to what the ALU produced for its operands, and
\* every other step (LoadConst, Jmp, Jz, Jnz, Load, Store) leaves Z, N, C, V
\* unchanged.
C5_FlagsFromAlu ==
    /\ []((status = "running" /\ dispatched = 0) => flags = ZeroFlags)
    /\ [][ status = "running" =>
            IF /\ pc < Len(prog) /\ dispatched' = dispatched + 1
               /\ status' = "running"
               /\ Fetch.op \in {"IR_ADD", "IR_SUB", "IR_MUL", "IR_DIV", "IR_CMP"}
            THEN LET a == regs[Fetch.dst]
                     b == regs[Fetch.src]
                 IN  flags' = CASE Fetch.op = "IR_ADD" -> alu_add(a, b, flags).f
                                [] Fetch.op = "IR_SUB" -> alu_sub(a, b, flags).f
                                [] Fetch.op = "IR_CMP" -> alu_sub(a, b, flags).f
                                [] Fetch.op = "IR_MUL" -> alu_mul(a, b, flags).f
                                [] Fetch.op = "IR_DIV" -> alu_div(a, b, flags).f
            ELSE flags' = flags ]_vars

\* the equal path of the branch demo: CMP 3, 3 sets Z and C, and the JZ and
\* the LOAD_CONST after it leave them alone
C5_Witness ==
    /\ status = "ok" /\ prog = BranchDemo(3, 3)
    /\ flags = Flags(1, 0, 1, 0) /\ regs[3] = Wd(42)

(***************************************************************************)
(* SpecDemo: the hand-written demo programs of main.c with their operands  *)
(* left open: run_branch_demo on any two Words, run_loop_demo from any     *)
(* start value, the round trip of run_memory_demo on any address and Word, *)
(* and programs that end in a taken branch to the program's end or one     *)
(* past it.                                                                *)
(***************************************************************************)
MaxCount == 20

\* a Word as the immediate of a LOAD_CONST
Imm(w) == L(0, w)

\* run_branch_demo with R1 = a, R2 = b for Words a, b
BranchOn(a, b) == [BranchDemo(0, 0) EXCEPT ![1].imm = Imm(a), ![2].imm = Imm(b)]

BranchWords ==
    { WZero, Wd(1), Wd(3), Wd(5), Wd(65536), W(32768, 0), W(57005, 48879),
      W(65535, 65535) }

\* run_loop_demo counting down from n
Countdown(n) == [LoopDemo EXCEPT ![1].imm = LongOf(n)]

\* the round trip of run_memory_demo at address A with value v
RoundTrip(A, v) == [MemDemoRoundTrip EXCEPT ![1].imm = Imm(A), ![2].imm = Imm(v)]

\* the round trip with a second Store before the Load, to address B
Overwrite(A, v, B, v2) ==
    SubSeq(RoundTrip(A, v), 1, 3) \o
    << IRInstr("IR_LOAD_CONST", 3, 0, Imm(B), 0, 0),
       IRInstr("IR_LOAD_CONST", 4, 0, Imm(v2), 0, 0),
       Ins("IR_STORE", 0, 4, 0, 0, 3),
       Ins("IR_LOAD", 2, 0, 0, 0, 0) >>

\* CMP R1, R2 on a and 3, then the branch op as the last instruction, its
\* target d past the program's end
BranchEdge(op, a, d) ==
    << Ins("IR_LOAD_CONST", 1, 0, a, 0, 0), Ins("IR_LOAD_CONST", 2, 0, 3, 0, 0),
       Ins("IR_CMP", 1, 2, 0, 0, 0),        Ins(op, 0, 0, 0, 4 + d, 0) >>

DemoPrograms ==
    { BranchOn(a, b) : a \in BranchWords, b \in BranchWords } \cup
    { Countdown(n) : n \in 1 .. MaxCount } \cup
    { RoundTrip(A, v) : A \in AddrSamples \cup {Wd(512)}, v \in WordSamples } \cup
    { Overwrite(Wd(512), W(57005, 48879), B, Wd(7)) : B \in {Wd(512), Wd(516)} } \cup
    { BranchEdge(op, a, d) : op \in {"IR_JMP", "IR_JZ", "IR_JNZ"}, a \in {3, 5},
                             d \in {0, 1} }

\* cpu_execute(&prog, mem, &result) on a demo program, mem NULL or a Memory
DemoCall ==
    /\ status = "idle" /\ calls = 0 /\ ast = NoTree
    /\ \E p \in DemoPrograms, m \in {"NULL", "fresh", "preloaded"} :
         /\ mem' = MemArg(m)
         /\ cpu_execute_entry(p, FALSE, m # "NULL", TRUE)
    /\ UNCHANGED <<ast, eval_result, cgVars, aluVars, memHarness, lexVars, objVars>>

\* the cases of the switch that the demo programs reach
DemoStep ==
    \/ ExecLoadConst \/ ExecSub \/ ExecCmp \/ ExecJmp \/ ExecJz \/ ExecJnz
    \/ ExecLoad \/ ExecStore \/ GuardTrip \/ CpuReturn

NextDemo ==
    \/ DemoCall
    \/ ExecLoadConst \/ ExecSub \/ ExecCmp \/ ExecJmp \/ ExecJz \/ ExecJnz
    \/ ExecLoad \/ ExecStore \/ GuardTrip \/ CpuReturn

\* cpu_execute is sequential code: once called it keeps executing
SpecDemo == Init /\ [][NextDemo]_vars /\ WF_vars(DemoStep)

(***************************************************************************)
(* SpecInstr: cpu_execute on two LOAD_CONSTs followed by one instruction   *)
(* whose register fields and immediate range over legal and illegal        *)
(* values, and on the program codegen_expr emits for a tree, run without   *)
(* the evaluator in front (the functions of cpu.h and codegen.h called     *)
(* directly).                                                              *)
(***************************************************************************)
\* register numbers on both sides of [0, CPU_MAX_REGS)
RegSamples == { -1, 0, 1, CPU_MAX_REGS - 1, CPU_MAX_REGS }

\* immediates: small, negative, and wider than 32 bits
ImmSamples ==
    { LongOf(0), LongOf(7), LongOf(-1), LongOf(-2147483647 - 1),
      L(1, Wd(5)),                   \* 2^32 + 5
      L(-2, W(65535, 65534)),        \* -2^32 - 2
      L(2147483647, W(32768, 0)) }   \* 2^63 - 2^31

\* the Words loaded into R0 and R1
OperandPairs ==
    { <<Wd(7), Wd(3)>>, <<Wd(3), Wd(7)>>, <<Wd(5), Wd(5)>>, <<WZero, WZero>>,
      <<Wd(10), WZero>>, <<W(65535, 65535), Wd(1)>>,
      <<W(32768, 0), W(65535, 65535)>>, <<Wd(512), W(57005, 48879)>> }

OneInstr ==
    { IRInstr(op, d, r, LongOf(0), 0, 0) :
        op \in {"IR_ADD", "IR_SUB", "IR_MUL", "IR_DIV", "IR_CMP"},
        d \in RegSamples, r \in RegSamples } \cup
    { IRInstr("IR_LOAD_CONST", d, r, i, 0, a) :
        d \in RegSamples, r \in {0, CPU_MAX_REGS}, i \in ImmSamples,
        a \in {0, CPU_MAX_REGS} } \cup
    { IRInstr("IR_LOAD", d, r, LongOf(0), 0, a) :
        d \in RegSamples, r \in {0, CPU_MAX_REGS}, a \in RegSamples } \cup
    { IRInstr("IR_STORE", d, r, LongOf(0), 0, a) :
        d \in {0, CPU_MAX_REGS}, r \in RegSamples, a \in RegSamples } \cup
    { IRInstr(op, CPU_MAX_REGS, -1, LongOf(0), t, CPU_MAX_REGS) :
        op \in {"IR_JMP", "IR_JZ", "IR_JNZ"}, t \in {0, 3} } \cup
    { IRInstr("IR_INVALID", 0, 0, LongOf(0), 0, 0) }

InstrPrograms ==
    { << IRInstr("IR_LOAD_CONST", 0, 0, Imm(ab[1]), 0, 0),
         IRInstr("IR_LOAD_CONST", 1, 0, Imm(ab[2]), 0, 0), i >> :
      ab \in OperandPairs, i \in OneInstr }

\* cpu_execute(&prog, mem, &result), mem NULL or a Memory after mem_init
InstrCall ==
    /\ status = "idle" /\ calls = 0 /\ ast = NoTree
    /\ \E p \in InstrPrograms, m \in {"NULL", "fresh"} :
         /\ mem' = MemArg(m)
         /\ cpu_execute_entry(p, FALSE, m # "NULL", TRUE)
    /\ UNCHANGED <<ast, eval_result, cgVars, aluVars, memHarness, lexVars, objVars>>

\* the expression 10 / 0 of the Makefile's test target
Tree_10d0 == Bin("OP_DIV", Num(LongOf(10)), Num(LongOf(0)))

\* codegen_init, codegen_expr and cpu_execute(&prog, NULL, &result) as main
\* calls them, on a tree that was not evaluated first
LowerAndRun ==
    /\ status = "idle" /\ calls = 0 /\ ast = NoTree
    /\ \E root \in {Tree_10d0, Tree_3p4, Tree_3p4m2} :
         /\ ast' = root
         /\ mem' = mem_init
         /\ Lower(root)
         /\ cpu_execute_entry(codegen'.prog, FALSE, FALSE, TRUE)
    /\ UNCHANGED <<eval_result, aluVars, memHarness, lexVars, objVars>>

NextInstr ==
    \/ InstrCall \/ LowerAndRun
    \/ ExecLoadConst \/ ExecAdd \/ ExecSub \/ ExecMul \/ ExecDiv \/ ExecCmp
    \/ ExecJmp \/ ExecJz \/ ExecJnz \/ ExecLoad \/ ExecStore \/ ExecUnknown
    \/ GuardTrip \/ CpuReturn

SpecInstr == Init /\ [][NextInstr]_vars

(***************************************************************************)
(* SpecCalls: one process calling cpu_execute several times in a row, as   *)
(* main does (the pipeline, then run_branch_demo, run_loop_demo and        *)
(* run_memory_demo), each call with no Memory, a Memory after mem_init or  *)
(* the Memory an earlier call worked on.                                   *)
(***************************************************************************)
MaxCalls == 3

\* programs whose outcome shows what they found in the registers, the flags
\* and the Memory: ADD R0, R1; JZ over a LOAD_CONST; a LOAD from 0x200
ProbeRegs == << Ins("IR_ADD", 0, 1, 0, 0, 0) >>

ProbeFlags == << Ins("IR_JZ", 0, 0, 0, 2, 0), Ins("IR_LOAD_CONST", 3, 0, 99, 0, 0) >>

ProbeMem ==
    << Ins("IR_LOAD_CONST", 0, 0, 512, 0, 0), Ins("IR_LOAD", 2, 0, 0, 0, 0) >>

CallPrograms == Demos \cup { ProbeRegs, ProbeFlags, ProbeMem }

NextCall ==
    /\ status \in {"idle", "ok", "error"} /\ calls < MaxCalls /\ ast = NoTree
    /\ \E p \in CallPrograms, m \in {"NULL", "fresh", "same"} :
         /\ m = "same" => (calls > 0 /\ mem_attached)
         /\ mem' = IF m = "same" THEN mem ELSE mem_init
         /\ cpu_execute_entry(p, FALSE, m # "NULL", TRUE)
    /\ UNCHANGED <<ast, eval_result, cgVars, aluVars, memHarness, lexVars, objVars>>

\* a call, or the next step of the running one (the cases these programs reach)
NextCalls ==
    \/ NextCall
    \/ ExecLoadConst \/ ExecAdd \/ ExecSub \/ ExecCmp \/ ExecJmp \/ ExecJz \/ ExecJnz
    \/ ExecLoad \/ ExecStore \/ CpuReturn

SpecCalls == Init /\ [][NextCalls]_vars

(***************************************************************************)
(* SpecLexer: a client that initialises a TokenStream over a source string *)
(* and calls lexer_peek and lexer_next in any order.                       *)
(***************************************************************************)
MaxLexCalls == 8

\* the inputs of the Makefile's test target and strings with a number at and
\* beyond LONG_MAX, an invalid character and other white space
SourceSamples ==
    { << >>,
      << "3", "+", "4" >>,
      << " ", " ", "1", "2", " ", " ", " ", "+", " ", " ", " ", "5", " ", "*", " ", " ", "9" >>,
      << "3", " ", "+", " ", "*", " ", "4" >>,
      << "(", "3", "+", "4", ")", "*", "2" >>,
      << "1", "0", " ", "/", " ", "0" >>,
      << "2", "1", "4", "7", "4", "8", "3", "6", "4", "7", "+", "1" >>,
      << "9", "2", "2", "3", "3", "7", "2", "0", "3", "6", "8", "5", "4", "7", "7", "5", "8", "0", "7" >>,
      << "9", "2", "2", "3", "3", "7", "2", "0", "3", "6", "8", "5", "4", "7", "7", "5", "8", "0", "8", "+", "1" >>,
      << "9", "9", "9", "9", "9", "9", "9", "9", "9", "9", "9", "9", "9", "9", "9", "9", "9", "9", "9", "9", " ", "7" >>,
      << "3", "$", "4" >>,
      << "\t", "7", "\n", "-" >>,
      << "0", "-", "1" >> }

LexInit ==
    /\ lex_ret.call = "none"
    /\ \E src \in SourceSamples : ts' = lexer_init(src)
    /\ lex_ret' = [call |-> "init", tok |-> NoToken, n |-> 0]
    /\ lex_nexts' = << >>
    /\ UNCHANGED <<aluVars, memVars, cpuVars, drvVars, objVars>>

LexNext ==
    /\ lex_ret.call # "none" /\ lex_ret.n < MaxLexCalls
    /\ \E r \in {lexer_next(ts)} :
         /\ ts' = r.ts
         /\ lex_ret' = [call |-> "next", tok |-> r.tok, n |-> lex_ret.n + 1]
         /\ lex_nexts' = Append(lex_nexts, r.tok)
    /\ UNCHANGED <<aluVars, memVars, cpuVars, drvVars, objVars>>

LexPeek ==
    /\ lex_ret.call # "none" /\ lex_ret.n < MaxLexCalls
    /\ \E r \in {lexer_peek(ts)} :
         /\ ts' = r.ts
         /\ lex_ret' = [call |-> "peek", tok |-> r.tok, n |-> lex_ret.n + 1]
    /\ UNCHANGED <<lex_nexts, aluVars, memVars, cpuVars, drvVars, objVars>>

NextLexer == LexInit \/ LexNext \/ LexPeek

SpecLexer == Init /\ [][NextLexer]_vars

(***************************************************************************)
(* SpecAst: a client that builds trees with the constructors of ast.c,     *)
(* each node owned by one parent, and releases them with ast_free.         *)
(***************************************************************************)
MaxNodes == 5

\* the Node store as the record the ast_* operators work on
Store == [heap |-> heap, frees |-> frees, exited |-> FALSE]

AstNumber ==
    /\ ast_ret.call # "exit" /\ Len(heap) < MaxNodes
    /\ \E value \in {LongOf(3), LongOf(4)} :
         \E r \in {ast_make_number(Store, value)} :
            /\ heap' = r.m.heap /\ frees' = r.m.frees
            /\ roots' = roots \cup {r.node}
            /\ ast_ret' = [call |-> "ast_make_number", node |-> r.node]
    /\ UNCHANGED <<aluVars, memVars, cpuVars, drvVars, lexVars, parVars, irVars>>

\* the children are trees the client holds, or NULL
AstBinary ==
    /\ ast_ret.call # "exit" /\ Len(heap) < MaxNodes
    /\ \E op \in {"OP_ADD", "OP_DIV"}, left \in roots \cup {NULL}, right \in roots \cup {NULL} :
         /\ left = NULL \/ left # right
         /\ \E r \in {ast_make_binary(Store, op, left, right)} :
              /\ heap' = r.m.heap /\ frees' = r.m.frees
              /\ roots' = (roots \ {left, right}) \cup ({r.node} \ {NULL})
              /\ ast_ret' = [call |-> IF r.m.exited THEN "exit" ELSE "ast_make_binary",
                             node |-> r.node]
    /\ UNCHANGED <<aluVars, memVars, cpuVars, drvVars, lexVars, parVars, irVars>>

AstFree ==
    /\ ast_ret.call # "exit"
    /\ \E node \in roots \cup {NULL} :
         \E m \in {ast_free(Store, node)} :
            /\ heap' = m.heap /\ frees' = m.frees
            /\ roots' = roots \ {node}
            /\ ast_ret' = [call |-> "ast_free", node |-> node]
    /\ UNCHANGED <<aluVars, memVars, cpuVars, drvVars, lexVars, parVars, irVars>>

NextAst == AstNumber \/ AstBinary \/ AstFree

SpecAst == Init /\ [][NextAst]_vars

(***************************************************************************)
(* SpecIr: a client that initialises an IRProgram, appends to it and frees *)
(* it, as main and the demos do (ir_program_init ... ir_program_free).     *)
(***************************************************************************)
MaxAppends == 33

\* what is appended at position n: the k-th leaf's LOAD_CONST as codegen emits
\* it, or at the positions around a growth of the buffer also an operator
AppendSamples(n) ==
    {IRInstr("IR_LOAD_CONST", n, 0, LongOf(n), 0, 0)} \cup
    (IF n \in {0, IR_INITIAL_CAPACITY - 1, IR_INITIAL_CAPACITY,
               2 * IR_INITIAL_CAPACITY - 1, 2 * IR_INITIAL_CAPACITY}
     THEN {IRInstr("IR_ADD", 0, n, LongOf(0), 0, 0)} ELSE {})

IrInit ==
    /\ irp.capacity = 0
    /\ irp' = ir_program_init
    /\ ir_log' = << >>
    /\ UNCHANGED <<aluVars, memVars, cpuVars, drvVars, lexVars, astVars, parVars>>

IrAppend ==
    /\ irp.capacity > 0 /\ irp.count < MaxAppends
    /\ \E instr \in AppendSamples(irp.count) :
         /\ irp' = ir_program_append_buf(irp, instr)
         /\ ir_log' = Append(ir_log, instr)
    /\ UNCHANGED <<aluVars, memVars, cpuVars, drvVars, lexVars, astVars, parVars>>

IrFree ==
    /\ irp.capacity > 0
    /\ irp' = ir_program_free
    /\ UNCHANGED <<ir_log, aluVars, memVars, cpuVars, drvVars, lexVars, astVars, parVars>>

NextIr == IrInit \/ IrAppend \/ IrFree

SpecIr == Init /\ [][NextIr]_vars

(***************************************************************************)
(* SpecGuard: cpu_execute on programs whose run needs a number of          *)
(* instructions at and around CPU_MAX_STEPS.                               *)
(***************************************************************************)
\* CMP of 1 and 2 clears Z, then JZ is not taken until n instructions have run
StraightRun(n) ==
    Setup(1, 2) \o << Ins("IR_CMP", 0, 1, 0, 0, 0) >> \o
    [i \in 1..(n - 3) |-> Ins("IR_JZ", 0, 0, 0, 0, 0)]

\* the countdown of run_loop_demo sized to run n instructions: 2k + 2 of the
\* loop and, for odd n, a JNZ after it that is not taken
LoopRun(n) ==
    IF n % 2 = 0 THEN Countdown((n - 2) \div 2)
    ELSE Countdown((n - 3) \div 2) \o << Ins("IR_JNZ", 0, 0, 0, 0, 0) >>

GuardPrograms ==
    { StraightRun(n) : n \in (CPU_MAX_STEPS - 1)..(CPU_MAX_STEPS + 2) } \cup
    { LoopRun(n) : n \in (CPU_MAX_STEPS - 1)..(CPU_MAX_STEPS + 2) }

GuardCall ==
    /\ status = "idle" /\ calls = 0 /\ ast = NoTree
    /\ \E p \in GuardPrograms :
         /\ mem' = MemArg("NULL")
         /\ cpu_execute_entry(p, FALSE, FALSE, TRUE)
    /\ UNCHANGED <<ast, eval_result, cgVars, aluVars, memHarness, lexVars, objVars>>

NextGuard ==
    \/ GuardCall
    \/ ExecLoadConst \/ ExecSub \/ ExecCmp \/ ExecJz \/ ExecJnz \/ GuardTrip \/ CpuReturn

SpecGuard == Init /\ [][NextGuard]_vars

(***************************************************************************)
(* SpecParser: main's lexer_init, parser_init and parser_parse over a      *)
(* source string, a unit test's call of one production, further calls on   *)
(* the same Parser, and ast_free of a tree that was returned.              *)
(***************************************************************************)
MaxSrcLen == 5
MaxParseCalls == 2

SrcAlphabet == {"7", "+", "-", "*", "(", ")"}

\* inputs of the Makefile's test target and further expressions
ParseSamples ==
    SourceSamples \cup
    { << "8", "-", "3", "-", "2" >>, << "2", "+", "3", "*", "4" >>,
      << "8", "/", "4", "/", "2" >>, << "2", "*", "3", "+", "4" >>,
      << "(", "1", "+", "(", "2", "*", "3", ")", ")", "+", "4" >>,
      << "(", "(", "1", ")", "+", "2" >>, << "1", "+", "2", ")", "3" >>,
      << "1", "2", " ", "3" >>, << "(", "4", "$", ")" >> }

Productions == {"parse_factor", "parse_term", "parse_expr", "parser_parse"}

\* the call of one production
Produce(prod, p) ==
    CASE prod = "parse_factor" -> parse_factor(p)
      [] prod = "parse_term"   -> parse_term(p)
      [] prod = "parse_expr"   -> parse_expr(p)
      [] prod = "parser_parse" -> parser_parse(p)

\* what a call leaves in the Parser, the TokenStream and the Node store
Parsed(prod, r) ==
    /\ ts' = r.p.ts /\ parser' = [error |-> r.p.error]
    /\ heap' = r.p.heap /\ frees' = r.p.frees
    /\ roots' = roots \cup ({r.node} \ {NULL})
    /\ parse_ret' = [call |-> prod, node |-> r.node, trace |-> r.p.trace,
                     exited |-> r.p.exited, n |-> parse_ret.n + 1]
    /\ UNCHANGED <<ast_ret, lex_ret, lex_nexts, irVars, aluVars, memVars, cpuVars, drvVars>>

\* lexer_init(&ts, src); parser_init(&parser, &ts); root = parser_parse(&parser)
ParseSource ==
    /\ parse_ret.call = "none"
    /\ \E n \in 0..MaxSrcLen : \E src \in [1..n -> SrcAlphabet] \cup ParseSamples :
         \E r \in {parser_parse([ts |-> lexer_init(src), error |-> parser_init.error,
                                 heap |-> heap, frees |-> frees, exited |-> FALSE,
                                 trace |-> << >>])} :
            Parsed("parser_parse", r)

\* the same with one production called in place of parser_parse
ParseUnit ==
    /\ parse_ret.call = "none"
    /\ \E src \in ParseSamples, prod \in Productions \ {"parser_parse"} :
         \E r \in {Produce(prod, [ts |-> lexer_init(src), error |-> parser_init.error,
                                  heap |-> heap, frees |-> frees, exited |-> FALSE,
                                  trace |-> << >>])} :
            Parsed(prod, r)

\* one more call on the Parser as the last call left it
ParseAgain ==
    /\ parse_ret.call # "none" /\ ~parse_ret.exited /\ parse_ret.n < MaxParseCalls
    /\ \E prod \in Productions :
         \E r \in {Produce(prod, [ts |-> ts, error |-> parser.error,
                                  heap |-> heap, frees |-> frees, exited |-> FALSE,
                                  trace |-> << >>])} :
            Parsed(prod, r)

\* ast_free(root) on a tree the parser returned (main.c, after the run)
ParseFree ==
    /\ parse_ret.call # "none" /\ ~parse_ret.exited
    /\ \E node \in roots :
         \E m \in {ast_free(Store, node)} :
            /\ heap' = m.heap /\ frees' = m.frees
            /\ roots' = roots \ {node}
            /\ ast_ret' = [call |-> "ast_free", node |-> node]
    /\ UNCHANGED <<parVars, lexVars, irVars, aluVars, memVars, cpuVars, drvVars>>

NextParser == ParseSource \/ ParseUnit \/ ParseAgain \/ ParseFree

SpecParser == Init /\ [][NextParser]_vars

(***************************************************************************)
(* SpecWide: codegen_expr and cpu_execute, as main calls them, on trees    *)
(* with about as many Number leaves as the CPU has registers.              *)
(***************************************************************************)
MaxComb == 32

\* 1 + (1 + (1 + ... )) with n leaves
RECURSIVE RightComb(_)
RightComb(n) ==
    IF n = 1 THEN Num(LongOf(1)) ELSE Bin("OP_ADD", Num(LongOf(1)), RightComb(n - 1))

\* what stands to the left of the comb: a leaf, a product, 10 / 0, and a
\* quotient whose divisor 2^32 the CPU's LOAD_CONST truncates to 0
WideHeads ==
    { Num(LongOf(1)), Bin("OP_MUL", Num(LongOf(2)), Num(LongOf(3))), Tree_10d0,
      Bin("OP_DIV", Num(LongOf(6)), Num(L(1, WZero))) }

WideTrees ==
    { Bin("OP_ADD", h, RightComb(n)) : h \in WideHeads, n \in (MaxComb - 2)..MaxComb }
    \cup {Tree_3p4, Tree_3p4m2}

WideCall ==
    /\ status = "idle" /\ calls = 0 /\ ast = NoTree
    /\ \E root \in WideTrees :
         /\ ast' = root
         /\ mem' = mem_init
         /\ Lower(root)
         /\ cpu_execute_entry(codegen'.prog, FALSE, FALSE, TRUE)
    /\ UNCHANGED <<eval_result, aluVars, memHarness, lexVars, objVars>>

NextWide ==
    \/ WideCall
    \/ ExecLoadConst \/ ExecAdd \/ ExecMul \/ ExecDiv \/ GuardTrip \/ CpuReturn

SpecWide == Init /\ [][NextWide]_vars

(***************************************************************************)
(* SpecQuiet: cpu_execute on programs of CMP, branches and STORE, and on   *)
(* programs whose branch decides whether a LOAD_CONST is executed.         *)
(***************************************************************************)
MaxQuietLen == 2

\* instructions that write no register, with targets up to n
QuietInstrs(n) ==
    { Ins("IR_CMP", 0, 0, 0, 0, 0), Ins("IR_CMP", 1, 2, 0, 0, 0),
      Ins("IR_STORE", 0, 1, 0, 0, 2) } \cup
    { Ins(op, 0, 0, 0, t, 0) : op \in {"IR_JMP", "IR_JZ", "IR_JNZ"}, t \in 0..n }

QuietPrograms ==
    UNION { [1..n -> QuietInstrs(n)] : n \in 1..MaxQuietLen } \cup
    { << Ins(op, 0, 0, 0, 2, 0), Ins("IR_LOAD_CONST", 3, 0, 99, 0, 0) >> :
         op \in {"IR_JMP", "IR_JZ", "IR_JNZ"} }

QuietCall ==
    /\ status = "idle" /\ calls = 0 /\ ast = NoTree
    /\ \E p \in QuietPrograms, m \in {"NULL", "fresh"} :
         /\ mem' = MemArg(m)
         /\ cpu_execute_entry(p, FALSE, m # "NULL", TRUE)
    /\ UNCHANGED <<ast, eval_result, cgVars, aluVars, memHarness, lexVars, objVars>>

NextQuiet ==
    \/ QuietCall
    \/ ExecLoadConst \/ ExecCmp \/ ExecJmp \/ ExecJz \/ ExecJnz \/ ExecStore
    \/ GuardTrip \/ CpuReturn

SpecQuiet == Init /\ [][NextQuiet]_vars

(***************************************************************************)
(* Claims about the code generator                                         *)
(***************************************************************************)
RECURSIVE NumLeaves(_)
NumLeaves(t) ==
    IF t.type = "NODE_NUMBER" THEN 1 ELSE NumLeaves(t.left) + NumLeaves(t.right)

\* the program for t written in closed form: the leaves take the registers
\* base, base + 1, ... from left to right, and a node computes into the
\* register of its leftmost leaf
RECURSIVE RefCode(_, _)
RefCode(t, base) ==
    IF t.type = "NODE_NUMBER"
    THEN << [op |-> "IR_LOAD_CONST", dst |-> base, src |-> 0, imm |-> t.value,
             target |-> 0, addr |-> 0] >>
    ELSE RefCode(t.left, base) \o RefCode(t.right, base + NumLeaves(t.left)) \o
         << [op |-> CASE t.op = "OP_ADD" -> "IR_ADD" [] t.op = "OP_SUB" -> "IR_SUB"
                      [] t.op = "OP_MUL" -> "IR_MUL" [] t.op = "OP_DIV" -> "IR_DIV",
             dst |-> base, src |-> base + NumLeaves(t.left), imm |-> LongOf(0),
             target |-> 0, addr |-> 0] >>

\* C14: from a fresh Codegen, codegen_expr emits one LoadConst per Number leaf
\* into registers 0, 1, 2, ... in left-to-right order and one instruction per
\* BinaryOp with the mapped opcode, dst = the left child's register, src = the
\* right child's register; it returns the left child's register; fields the
\* opcode does not use are zero.  For Add(3, 4) the program is LoadConst r0,3;
\* LoadConst r1,4; Add r0,r1 and the CPU ends with 7.
C14_CodegenShape ==
    cg_runs > 0 =>
        LET p == codegen.prog
        IN  /\ p = RefCode(ast, 0)
            /\ cg_reg = 0
            /\ codegen.next_reg = NumLeaves(ast)
            /\ prog = p
            /\ \A i \in 1 .. Len(p) :
                 /\ p[i].target = 0 /\ p[i].addr = 0
                 /\ IF p[i].op = "IR_LOAD_CONST"
                    THEN /\ p[i].src = 0
                         /\ p[i].dst = Cardinality({j \in 1 .. i - 1 :
                                                      p[j].op = "IR_LOAD_CONST"})
                    ELSE p[i].imm = LongOf(0)
            /\ ast = Tree_3p4 =>
                 /\ p = << [op |-> "IR_LOAD_CONST", dst |-> 0, src |-> 0,
                            imm |-> LongOf(3), target |-> 0, addr |-> 0],
                           [op |-> "IR_LOAD_CONST", dst |-> 1, src |-> 0,
                            imm |-> LongOf(4), target |-> 0, addr |-> 0],
                           [op |-> "IR_ADD", dst |-> 0, src |-> 1,
                            imm |-> LongOf(0), target |-> 0, addr |-> 0] >>
                 /\ status # "error"
                 /\ status = "ok" =>
                      out_result = [written |-> TRUE, value |-> LongOf(7)]

C14_Witness ==
    /\ ast = Tree_3p4 /\ status = "ok" /\ Len(prog) = 3 /\ cg_reg = 0
    /\ out_result = [written |-> TRUE, value |-> LongOf(7)]

\* p is a post-order listing of t: the code of the left subtree, then the code
\* of the right subtree, then the node's own instruction
RECURSIVE PostOrder(_, _)
PostOrder(t, p) ==
    IF t.type = "NODE_NUMBER"
    THEN Len(p) = 1 /\ p[1].op = "IR_LOAD_CONST" /\ p[1].imm = t.value
    ELSE LET n1 == 2 * NumLeaves(t.left) - 1
         IN  /\ Len(p) = 2 * NumLeaves(t) - 1
             /\ p[Len(p)].op = "IR_" \o SubSeq(t.op, 4, 6)
             /\ PostOrder(t.left, SubSeq(p, 1, n1))
             /\ PostOrder(t.right, SubSeq(p, n1 + 1, Len(p) - 1))

\* the position of the (only) instruction with opcode op in p
PosOf(p, op) == CHOOSE i \in 1 .. Len(p) : p[i].op = op

\* C15: the emitted instructions are in post-order, so every register an
\* arithmetic instruction names as dst or src was written by an earlier
\* instruction; for 3+4*2 the Mul precedes the Add and the result is 11, for
\* (3+4)*2 the Add precedes the Mul and the result is 14.
C15_PostOrder ==
    cg_runs > 0 =>
        LET p == codegen.prog
        IN  /\ PostOrder(ast, p)
            /\ \A i \in 1 .. Len(p) :
                 p[i].op # "IR_LOAD_CONST" =>
                    /\ \E j \in 1 .. i - 1 : p[j].dst = p[i].dst
                    /\ \E j \in 1 .. i - 1 : p[j].dst = p[i].src
            /\ ast = Tree_3p4m2 =>
                 /\ PosOf(p, "IR_MUL") < PosOf(p, "IR_ADD")
                 /\ status # "error"
                 /\ status = "ok" =>
                      out_result = [written |-> TRUE, value |-> LongOf(11)]
            /\ ast = Tree_3p4_m2 =>
                 /\ PosOf(p, "IR_ADD") < PosOf(p, "IR_MUL")
                 /\ status # "error"
                 /\ status = "ok" =>
                      out_result = [written |-> TRUE, value |-> LongOf(14)]

C15_Witness ==
    /\ ast = Tree_3p4m2 /\ status = "ok" /\ prog[3].op = "IR_LOAD_CONST"
    /\ prog[4].op = "IR_MUL" /\ prog[5].op = "IR_ADD"
    /\ out_result = [written |-> TRUE, value |-> LongOf(11)]

IsBranchDemo ==
    /\ Len(prog) = 7
    /\ prog = [BranchDemo(0, 0) EXCEPT ![1].imm = prog[1].imm, ![2].imm = prog[2].imm]

\* C17: for any Words a and b the branch demo terminates normally, with result
\* 42 when a = b and 99 when a # b; its Jz is taken exactly when the two
\* compared registers are bit-equal.
C17_BranchDemo ==
    /\ [](IsBranchDemo =>
            /\ status # "error"
            /\ status = "ok" =>
                 /\ out_result.written
                 /\ out_result.value =
                      LongOf(IF LongToWord(prog[1].imm) = LongToWord(prog[2].imm)
                             THEN 42 ELSE 99))
    /\ [][ (IsBranchDemo /\ status = "running" /\ pc = 3 /\ dispatched' = dispatched + 1)
           => (pc' = IF regs[1] = regs[2] THEN 6 ELSE 4) ]_vars
    /\ ((IsBranchDemo /\ status = "running") ~> (status = "ok"))

C17_Witness ==
    /\ IsBranchDemo /\ status = "ok"
    /\ regs[1] = W(65535, 65535) /\ regs[2] = Wd(1)
    /\ out_result = [written |-> TRUE, value |-> LongOf(99)]

\* the running program is run_loop_demo from a start value n >= 1 with
\* 2n + 2 <= CPU_MAX_STEPS
IsCountdown ==
    /\ Len(prog) = 4
    /\ prog = [LoopDemo EXCEPT ![1].imm = prog[1].imm]
    /\ prog[1].imm.h = 0 /\ prog[1].imm.w.hi = 0
    /\ prog[1].imm.w.lo >= 1
    /\ 2 * prog[1].imm.w.lo + 2 <= CPU_MAX_STEPS

CountdownStart == prog[1].imm.w.lo

\* C18: for n >= 1 with 2n + 2 <= CPU_MAX_STEPS the countdown program executes
\* its Sub exactly n times (the Sub is the 3rd, 5th, ..., (2n+1)-th instruction
\* executed, each lowering R0 by one, and 2n + 2 instructions are executed in
\* all) and terminates normally with R0 = 0.
C18_Countdown ==
    /\ [](IsCountdown =>
            /\ status # "error"
            /\ dispatched >= 2 =>
                 regs[0] = Wd(CountdownStart - ((dispatched - 1) \div 2))
            /\ status = "ok" =>
                 /\ dispatched = 2 * CountdownStart + 2
                 /\ regs[0] = WZero
                 /\ out_result = [written |-> TRUE, value |-> LongOf(0)])
    /\ [][ (IsCountdown /\ dispatched' = dispatched + 1)
           => ((pc = 2) <=> (dispatched' >= 3 /\ dispatched' % 2 = 1)) ]_vars
    /\ ((IsCountdown /\ status = "running") ~> (status = "ok"))

C18_Witness ==
    /\ IsCountdown /\ status = "ok" /\ 2 * CountdownStart + 2 = CPU_MAX_STEPS
    /\ dispatched = CPU_MAX_STEPS /\ regs[0] = WZero

\* the running program is the memory round trip on an aligned in-range
\* address, called with a Memory
IsRoundTrip ==
    /\ Len(prog) = 4
    /\ prog = [MemDemoRoundTrip EXCEPT ![1].imm = prog[1].imm, ![2].imm = prog[2].imm]
    /\ mem_attached
    /\ Aligned(LongToWord(prog[1].imm)) /\ InRange(LongToWord(prog[1].imm))

\* the value of the latest completed Store to address a, if there is one
StoresTo(a) == { i \in 1 .. Len(stores) : stores[i][1] = a }

LastStored(a) ==
    stores[CHOOSE i \in StoresTo(a) : \A j \in StoresTo(a) : j <= i][2]

\* C19: with a Memory attached, a Load from an address that a Store of this
\* run wrote reads the value of the latest such Store; the round-trip program
\* on an aligned in-range address A and a Word v terminates normally with
\* R2 = v.
C19_StoreLoad ==
    /\ [][ (/\ status = "running" /\ pc < Len(prog)
            /\ dispatched' = dispatched + 1
            /\ Fetch.op = "IR_LOAD"
            /\ check_reg(Fetch.dst) /\ check_reg(Fetch.addr)
            /\ mem_attached
            /\ StoresTo(regs[Fetch.addr]) # {})
           => (/\ status' = "running"
               /\ regs'[Fetch.dst] = LastStored(regs[Fetch.addr])) ]_vars
    /\ [](IsRoundTrip =>
            /\ status # "error"
            /\ status = "ok" => regs[2] = LongToWord(prog[2].imm))
    /\ ((IsRoundTrip /\ status = "running") ~> (status = "ok"))

C19_Witness ==
    /\ IsRoundTrip /\ status = "ok"
    /\ regs[0] = Wd(512) /\ regs[1] = W(57005, 48879) /\ regs[2] = W(57005, 48879)
    /\ stores = << <<Wd(512), W(57005, 48879)>> >>

\* a Jmp, or a Jz / Jnz whose condition holds, is about to be executed
TakenBranch ==
    /\ status = "running" /\ pc < Len(prog)
    /\ \/ Fetch.op = "IR_JMP"
       \/ Fetch.op = "IR_JZ"  /\ flags.Z # 0
       \/ Fetch.op = "IR_JNZ" /\ flags.Z = 0

\* C20: a taken branch to target = program.length is legal: pc becomes
\* program.length, no instruction follows and cpu_execute returns success; a
\* taken branch to target = program.length + 1 fails with BranchOutOfRange.
C20_BranchToEnd ==
    /\ [][ (TakenBranch /\ dispatched' = dispatched + 1)
           => /\ Fetch.target = Len(prog) =>
                   (status' = "running" /\ err' = "None" /\ pc' = Len(prog))
              /\ Fetch.target = Len(prog) + 1 =>
                   (status' = "error" /\ err' = "BranchOutOfRange") ]_vars
    /\ [][ (status = "running" /\ pc = Len(prog))
           => (status' = "ok" /\ dispatched' = dispatched) ]_vars
    /\ ((status = "running" /\ pc = Len(prog)) ~> (status = "ok"))

C20_Witness ==
    /\ status = "ok" /\ Len(prog) = 4 /\ pc = 4 /\ dispatched = 4
    /\ prog[4].op = "IR_JNZ" /\ prog[4].target = Len(prog)

(***************************************************************************)
(* Claims about single instructions of cpu_execute (Spec)                  *)
(***************************************************************************)
\* C21: in every state of cpu_execute pc <= program.length; an instruction is
\* fetched only at pc < program.length; the loop ends normally exactly when
\* pc = program.length.
C21_PcInRange ==
    /\ [](pc >= 0 /\ pc <= Len(prog))
    /\ [](status = "ok" => pc = Len(prog))
    /\ [][ dispatched' = dispatched + 1 => (status = "running" /\ pc < Len(prog)) ]_vars
    /\ [][ (status = "running" /\ status' = "ok") <=>
           (status = "running" /\ pc = Len(prog) /\ status' # status) ]_vars

C21_Witness ==
    /\ status = "ok" /\ Len(prog) = 7 /\ pc = 7 /\ dispatched = 6
    /\ prog[6].op = "IR_JMP" /\ prog[6].target = 7

\* the register fields the opcode of instruction i uses
UsedRegs(i) ==
    CASE i.op = "IR_LOAD_CONST" -> {i.dst}
      [] i.op \in {"IR_ADD", "IR_SUB", "IR_MUL", "IR_DIV", "IR_CMP"} -> {i.dst, i.src}
      [] i.op = "IR_LOAD"  -> {i.dst, i.addr}
      [] i.op = "IR_STORE" -> {i.src, i.addr}
      [] OTHER -> {}

\* C22: an executed instruction fails with RegisterOutOfRange exactly when a
\* register field its opcode uses is outside [0, 32); the failing instruction
\* changes no register, flag, memory byte or pc, and an instruction that does
\* not fail so indexes the register array only inside 0 .. 31.
C22_RegisterCheck ==
    [][ (status = "running" /\ dispatched' = dispatched + 1)
        => /\ (status' = "error" /\ err' = "RegisterOutOfRange")
                <=> (\E r \in UsedRegs(Fetch) : r < 0 \/ r >= 32)
           /\ (status' = "error" /\ err' = "RegisterOutOfRange")
                => (regs' = regs /\ flags' = flags /\ mem' = mem /\ pc' = pc)
           /\ ~(status' = "error" /\ err' = "RegisterOutOfRange")
                => UsedRegs(Fetch) \subseteq DOMAIN regs ]_vars

C22_Witness ==
    /\ status = "error" /\ err = "RegisterOutOfRange" /\ pc = 2
    /\ prog[3].op = "IR_STORE" /\ prog[3].src = 1 /\ prog[3].addr = 32
    /\ mem_attached /\ mem = mem0 /\ regs[0] = Wd(512)

\* C23: a Div with R[src] = 0 fails with DivisionByZero and changes neither
\* R[dst] (nor any register) nor the flags, and no other instruction fails so:
\* alu_div is reached only with a non-zero divisor.  The program lowered from
\* 10 / 0 is LoadConst r0,10; LoadConst r1,0; Div r0,r1 and its execution
\* never succeeds and fails only with DivisionByZero, at the Div.
C23_DivisionByZero ==
    /\ [][ (status = "running" /\ dispatched' = dispatched + 1)
           => /\ (status' = "error" /\ err' = "DivisionByZero")
                   <=> (/\ Fetch.op = "IR_DIV"
                        /\ check_reg(Fetch.dst) /\ check_reg(Fetch.src)
                        /\ regs[Fetch.src] = WZero)
              /\ (status' = "error" /\ err' = "DivisionByZero")
                   => (regs' = regs /\ flags' = flags /\ pc' = pc /\ mem' = mem) ]_vars
    /\ [](ast = Tree_10d0 =>
            /\ Len(prog) = 3 /\ prog[3].op = "IR_DIV"
            /\ prog[3].dst = 0 /\ prog[3].src = 1
            /\ status # "ok"
            /\ status = "error" =>
                 (err = "DivisionByZero" /\ pc = 2 /\ regs[0] = Wd(10)
                  /\ ~out_result.written))

C23_Witness ==
    /\ ast = Tree_10d0 /\ status = "error" /\ err = "DivisionByZero"
    /\ pc = 2 /\ regs[0] = Wd(10) /\ regs[1] = WZero /\ flags = ZeroFlags

\* C24 (amended): a Load or Store whose register fields are in range, executed
\* when no Memory is attached, fails with MemoryNotAttached and changes
\* nothing; no other step fails so (a Load or Store with a register field out
\* of range fails with RegisterOutOfRange, Memory or not), hence a program that
\* executes no Load or Store is not affected by the missing Memory and can run
\* to completion.
C24_MemoryNotAttached ==
    /\ [][ (status = "running" /\ dispatched' = dispatched + 1)
           => /\ (status' = "error" /\ err' = "MemoryNotAttached")
                   <=> (/\ Fetch.op \in {"IR_LOAD", "IR_STORE"}
                        /\ \A r \in UsedRegs(Fetch) : check_reg(r)
                        /\ ~mem_attached)
              /\ (status' = "error" /\ err' = "MemoryNotAttached")
                   => (regs' = regs /\ flags' = flags /\ pc' = pc /\ mem' = mem) ]_vars
    /\ [][ (status = "running" /\ ~mem_attached /\ pc = Len(prog)
            /\ \A i \in 1 .. Len(prog) : prog[i].op \notin {"IR_LOAD", "IR_STORE"})
           => status' = "ok" ]_vars

C24_Witness ==
    /\ status = "error" /\ err = "MemoryNotAttached" /\ ~mem_attached
    /\ pc = 2 /\ prog[3].op = "IR_LOAD" /\ prog[3].dst = 31 /\ prog[3].addr = 0

\* C24 (as stated): executing a Load or Store when no Memory is attached fails
\* with MemoryNotAttached.
C24_Claim ==
    [][ (/\ status = "running" /\ dispatched' = dispatched + 1
         /\ Fetch.op \in {"IR_LOAD", "IR_STORE"}
         /\ ~mem_attached)
        => (status' = "error" /\ err' = "MemoryNotAttached") ]_vars

\* the integer a Word stands for when read as two's complement
SignedOf(w) ==
    IF w.hi >= 32768 THEN (w.hi - 65536) * 65536 + w.lo ELSE w.hi * 65536 + w.lo

\* C25: on normal termination the delivered result is the two's-complement
\* signed reading of R[last_dst]; a LoadConst, Add, Sub, Mul, Div or Load that
\* completes sets last_dst to its dst, and a Cmp, Store, Jmp, Jz or Jnz (and
\* every failing instruction) leaves last_dst unchanged.
C25_ResultRegister ==
    /\ []((status = "ok" /\ out_attached) =>
            /\ out_result.written
            /\ out_result.value = LongOf(SignedOf(regs[last_dst])))
    /\ [][ (status = "running" /\ dispatched' = dispatched + 1)
           => last_dst' =
                IF /\ status' = "running"
                   /\ Fetch.op \in {"IR_LOAD_CONST", "IR_ADD", "IR_SUB", "IR_MUL",
                                    "IR_DIV", "IR_LOAD"}
                THEN Fetch.dst ELSE last_dst ]_vars
    /\ [][ dispatched' = dispatched => (last_dst' = last_dst \/ calls' # calls) ]_vars

\* 4 - 7 computed into R0, then a Cmp: the result is -3, read from R0
C25_Witness ==
    /\ status = "ok" /\ Len(prog) = 4
    /\ prog[3].op = "IR_SUB" /\ prog[4].op = "IR_CMP"
    /\ last_dst = 0 /\ regs[0] = W(65535, 65533)
    /\ out_result = [written |-> TRUE, value |-> LongOf(-3)]

\* C26: an Add, Sub, Mul or Div (divisor not zero) that executes sets R[dst]
\* to ALU_op(old R[dst], old R[src]), in this operand order, and leaves every
\* other register unchanged, also when dst = src.
C26_ArithFrame ==
    [][ (/\ status = "running" /\ dispatched' = dispatched + 1
         /\ Fetch.op \in {"IR_ADD", "IR_SUB", "IR_MUL", "IR_DIV"}
         /\ check_reg(Fetch.dst) /\ check_reg(Fetch.src)
         /\ (Fetch.op = "IR_DIV" => regs[Fetch.src] # WZero))
        => LET a == regs[Fetch.dst]
               b == regs[Fetch.src]
               v == CASE Fetch.op = "IR_ADD" -> alu_add(a, b, flags).result
                      [] Fetch.op = "IR_SUB" -> alu_sub(a, b, flags).result
                      [] Fetch.op = "IR_MUL" -> alu_mul(a, b, flags).result
                      [] Fetch.op = "IR_DIV" -> alu_div(a, b, flags).result
           IN  /\ status' = "running"
               /\ regs'[Fetch.dst] = v
               /\ \A r \in DOMAIN regs : r # Fetch.dst => regs'[r] = regs[r]
               /\ DOMAIN regs' = DOMAIN regs ]_vars

\* Sub R1, R1 on R1 = 7: both operands are the old R1, R0 keeps its 3
C26_Witness ==
    /\ status = "ok" /\ Len(prog) = 3 /\ prog[3].op = "IR_SUB"
    /\ prog[3].dst = 1 /\ prog[3].src = 1
    /\ prog[2].imm = Imm(Wd(7))
    /\ regs[0] = Wd(3) /\ regs[1] = WZero /\ flags = Flags(1, 0, 1, 0)

\* C27: a Cmp dst, src that executes leaves all 32 registers unchanged and
\* sets Z, N, C, V to the flags a Sub dst, src produces on the same register
\* values (so Z is set exactly for equal operands and C exactly when
\* R[dst] >= R[src] as unsigned numbers).
C27_CmpFrame ==
    [][ (/\ status = "running" /\ dispatched' = dispatched + 1
         /\ Fetch.op = "IR_CMP"
         /\ check_reg(Fetch.dst) /\ check_reg(Fetch.src))
        => /\ status' = "running"
           /\ regs' = regs
           /\ flags' = alu_sub(regs[Fetch.dst], regs[Fetch.src], flags).f
           /\ flags'.Z = B01(regs[Fetch.dst] = regs[Fetch.src])
           /\ flags'.C = B01(WGe(regs[Fetch.dst], regs[Fetch.src]))
           /\ flags'.N = Bit(WSubMod(regs[Fetch.dst], regs[Fetch.src]), 31) ]_vars

\* Cmp R0, R1 on 3 and 7: a borrow and a negative difference, registers kept
C27_Witness ==
    /\ status = "ok" /\ Len(prog) = 3 /\ prog[3].op = "IR_CMP"
    /\ prog[3].dst = 0 /\ prog[3].src = 1
    /\ regs[0] = Wd(3) /\ regs[1] = Wd(7) /\ flags = Flags(0, 1, 0, 0)

\* C28: a LoadConst dst, imm (dst in range) that executes sets R[dst] to
\* imm mod 2^32 for every immediate: the low 32 bits of a wide one, the two's
\* complement of a negative one; it raises no error and changes no other
\* register and no flag.
C28_LoadConst ==
    [][ (/\ status = "running" /\ dispatched' = dispatched + 1
         /\ Fetch.op = "IR_LOAD_CONST"
         /\ check_reg(Fetch.dst))
        => /\ status' = "running" /\ err' = "None"
           /\ regs'[Fetch.dst] = Fetch.imm.w
           /\ (Fetch.imm.h = 0 /\ Fetch.imm.w.hi < 32768) \/
              (Fetch.imm.h = -1 /\ Fetch.imm.w.hi >= 32768)
                => SignedOf(regs'[Fetch.dst]) = LInt(Fetch.imm)
           /\ \A r \in DOMAIN regs : r # Fetch.dst => regs'[r] = regs[r]
           /\ DOMAIN regs' = DOMAIN regs
           /\ flags' = flags ]_vars

\* LoadConst R31, 2^32 + 5 leaves 5 in R31
C28_Witness ==
    /\ status = "ok" /\ Len(prog) = 3 /\ prog[3].op = "IR_LOAD_CONST"
    /\ prog[3].dst = 31 /\ prog[3].imm = L(1, Wd(5))
    /\ regs[31] = Wd(5) /\ regs[0] = Wd(7) /\ regs[1] = Wd(3)

(***************************************************************************)
(* Claims about successive calls (SpecCalls)                               *)
(***************************************************************************)
\* C29: every call of cpu_execute starts from a fresh CPU, whatever earlier
\* calls left behind: 32 registers 0, pc 0, the four flags 0, step count 0
\* (and last_dst 0); so a program that reads a register, tests a flag or, with
\* no or a fresh Memory, loads a word finds zeros in a later call as in a
\* first one, and only the bytes of a Memory handed in again carry over.
C29_FreshCpu ==
    /\ [][ (calls' = calls + 1 /\ status' = "running")
           => /\ regs' = ZeroRegs /\ pc' = 0 /\ flags' = ZeroFlags
              /\ step_count' = 0 /\ last_dst' = 0
              /\ mem' \in {mem, mem_init} ]_vars
    /\ []((prog = ProbeRegs /\ status = "ok") =>
             out_result = [written |-> TRUE, value |-> LongOf(0)])
    /\ []((prog = ProbeFlags /\ status = "ok") => regs[3] = Wd(99))
    /\ []((prog = ProbeMem /\ status = "ok") =>
             regs[2] = mem_read_word(TRUE, mem0, Wd(512), WZero).out)
    /\ []((prog = ProbeMem /\ status = "ok" /\ mem0 = mem_init) => regs[2] = WZero)

\* the second call reads back what the first stored at 0x200, while R1, which
\* held the value in the first call, is 0 again
C29_Witness ==
    /\ calls = 2 /\ prog = ProbeMem /\ status = "ok"
    /\ regs[2] = W(57005, 48879) /\ regs[1] = WZero /\ dispatched = 2

(***************************************************************************)
(* Claims about the lexer (SpecLexer)                                      *)
(***************************************************************************)
\* the first k Tokens of the stream t when only lexer_next is called
RECURSIVE NextOnly(_, _)
NextOnly(t, k) ==
    IF k = 0 THEN << >>
    ELSE LET r == lexer_next(t) IN << r.tok >> \o NextOnly(r.ts, k - 1)

\* C30: under any interleaving of lexer_peek and lexer_next, a lexer_peek
\* that follows a lexer_peek returns the same Token, the lexer_next that
\* follows a lexer_peek returns that Token too, and the Tokens lexer_next has
\* returned are the ones it returns when lexer_peek is never called (a
\* lexer_peek returns the Token that comes after them).
C30_PeekNext ==
    /\ [][ (lex_ret.call = "peek" /\ lex_ret'.n = lex_ret.n + 1)
           => lex_ret'.tok = lex_ret.tok ]_vars
    /\ [](lex_nexts = NextOnly(lexer_init(ts.src), Len(lex_nexts)))
    /\ [](lex_ret.call = "peek" =>
            lex_ret.tok = NextOnly(lexer_init(ts.src), Len(lex_nexts) + 1)[Len(lex_nexts) + 1])

\* 3+4 read with a lexer_peek (or two) before each lexer_next
C30_Witness ==
    /\ ts.src = << "3", "+", "4" >> /\ lex_ret.call = "next" /\ lex_ret.n = 7
    /\ Len(lex_nexts) = 3
    /\ lex_nexts[1] = make_token("TOK_NUMBER", LongOf(3), 0)
    /\ lex_nexts[2] = make_token("TOK_PLUS", LongOf(0), 1)
    /\ lex_nexts[3] = make_token("TOK_NUMBER", LongOf(4), 2)

(***************************************************************************)
(* Claims about the AST store, the IRProgram buffer, the step guard, the   *)
(* parser and the register allocation                                      *)
(***************************************************************************)
\* the nodes of the tree under a pointer, by the tree's shape
RECURSIVE NodesOf(_, _)
NodesOf(h, node) ==
    IF node = NULL THEN {}
    ELSE IF h[node].type = "NODE_NUMBER" THEN {node}
    ELSE {node} \cup NodesOf(h, h[node].left) \cup NodesOf(h, h[node].right)

\* C31: ast_free on the root of a tree calls free exactly once on every node
\* of the tree and on no other node, so no node is ever freed twice and every
\* node is either still in a tree the client holds or freed once;
\* ast_free(NULL) frees nothing.
C31_AstFree ==
    /\ [][ast_ret'.call = "ast_free" /\ ast_ret.call # "exit" =>
            \A a \in 1..Len(heap) :
               frees'[a] = frees[a] +
                   (IF a \in NodesOf(heap, ast_ret'.node) THEN 1 ELSE 0)]_vars
    /\ [](ast_ret.call # "exit" =>
            \A a \in 1..Len(heap) :
               /\ frees[a] <= 1
               /\ frees[a] = 0 <=> \E r \in roots : a \in NodesOf(heap, r))

\* a tree of five nodes released by one ast_free, every node freed once
C31_Witness ==
    /\ ast_ret.call = "ast_free" /\ ast_ret.node = 5
    /\ heap[5].type = "NODE_BINARY_OP" /\ heap[heap[5].left].type = "NODE_BINARY_OP"
    /\ \A a \in 1..5 : frees[a] = 1


\* 16 doubled zero or more times
RECURSIVE IsDoubled16(_)
IsDoubled16(c) == c = 16 \/ (c > 16 /\ c % 2 = 0 /\ IsDoubled16(c \div 2))

\* the sequence the appends build, one ir_program_append at a time
RECURSIVE Appended(_, _)
Appended(log, n) ==
    IF n = 0 THEN << >> ELSE ir_program_append(Appended(log, n - 1), log[n])

\* C32: after ir_program_init and n calls of ir_program_append, count = n,
\* slot i holds the i-th appended instruction unchanged, also after the buffer
\* has grown, count <= capacity, and capacity is 16 doubled zero or more times.
C32_IrProgram ==
    irp.capacity > 0 =>
        /\ irp.count = Len(ir_log)
        /\ \A i \in 1..Len(ir_log) : irp.data[i] = ir_log[i]
        /\ SubSeq(irp.data, 1, irp.count) = Appended(ir_log, Len(ir_log))
        /\ irp.count <= irp.capacity
        /\ Len(irp.data) = irp.capacity
        /\ IsDoubled16(irp.capacity)

\* the seventeenth append has grown the buffer from 16 to 32 slots
C32_Witness ==
    /\ irp.count = IR_INITIAL_CAPACITY + 1 /\ irp.capacity = 2 * IR_INITIAL_CAPACITY
    /\ irp.data[1] = ir_log[1] /\ irp.data[1].op = "IR_ADD"
    /\ irp.data[17].op = "IR_ADD"


\* C33: the guard trips exactly when one more instruction than CPU_MAX_STEPS
\* would be dispatched: every instruction fetched, a branch not taken
\* included, advances the step counter by one; the call fails with
\* InfiniteLoopGuard exactly at the fetch that follows CPU_MAX_STEPS dispatched
\* instructions; a run that needs exactly CPU_MAX_STEPS instructions does not
\* fail and one that needs CPU_MAX_STEPS + 1 does not succeed.
C33_StepGuard ==
    /\ [](dispatched <= CPU_MAX_STEPS)
    /\ [](status = "running" => step_count = dispatched)
    /\ [](err = "InfiniteLoopGuard" =>
            dispatched = CPU_MAX_STEPS /\ step_count = CPU_MAX_STEPS + 1 /\ pc < Len(prog))
    /\ [][status = "running" /\ pc < Len(prog) =>
            /\ step_count' = step_count + 1
            /\ (status' = "error" /\ err' = "InfiniteLoopGuard")
                   <=> dispatched = CPU_MAX_STEPS
            /\ dispatched < CPU_MAX_STEPS => dispatched' = dispatched + 1]_vars
    /\ [](prog \in {StraightRun(CPU_MAX_STEPS), LoopRun(CPU_MAX_STEPS)} =>
            /\ status # "error"
            /\ status = "ok" => dispatched = CPU_MAX_STEPS)
    /\ [](prog \in {StraightRun(CPU_MAX_STEPS + 1), LoopRun(CPU_MAX_STEPS + 1)} =>
            /\ status # "ok"
            /\ status = "error" => err = "InfiniteLoopGuard")

\* the loop run that needs CPU_MAX_STEPS + 1 instructions has failed at the
\* guard, at the fetch of its last branch
C33_Witness ==
    /\ prog = LoopRun(CPU_MAX_STEPS + 1)
    /\ status = "error" /\ err = "InfiniteLoopGuard"
    /\ dispatched = CPU_MAX_STEPS /\ Fetch.op = "IR_JNZ"


\* the tokens of a stream up to TOK_EOF, as lexer_next delivers them
RECURSIVE TokensOf(_)
TokensOf(t) ==
    LET r == lexer_next(t)
    IN  IF r.tok.type = "TOK_EOF" THEN << >> ELSE << r.tok >> \o TokensOf(r.ts)

\* the grammar of parser.h read as a definition of the tree of a token
\* sequence s, NoTree when s is no expression: an expr splits at its last
\* '+' or '-' outside parentheses into an expr and a term, a term at its
\* last '*' or '/' into a term and a factor
RECURSIVE RefExpr(_), RefTerm(_), RefFactor(_), Depth(_, _)

\* the number of parentheses open before position k
Depth(s, k) ==
    IF k <= 1 THEN 0
    ELSE Depth(s, k - 1) + (CASE s[k - 1].type = "TOK_LPAREN" -> 1
                              [] s[k - 1].type = "TOK_RPAREN" -> -1
                              [] OTHER -> 0)

RefFactor(s) ==
    IF Len(s) = 1 /\ s[1].type = "TOK_NUMBER" THEN Num(s[1].value)
    ELSE IF Len(s) >= 3 /\ s[1].type = "TOK_LPAREN" /\ s[Len(s)].type = "TOK_RPAREN"
    THEN RefExpr(SubSeq(s, 2, Len(s) - 1))
    ELSE NoTree

RefTerm(s) ==
    LET at == {k \in 2..(Len(s) - 1) :
                  s[k].type \in {"TOK_MUL", "TOK_DIV"} /\ Depth(s, k) = 0}
    IN  IF at = {} THEN RefFactor(s)
        ELSE LET k == CHOOSE k \in at : \A j \in at : j <= k
                 l == RefTerm(SubSeq(s, 1, k - 1))
                 r == RefFactor(SubSeq(s, k + 1, Len(s)))
             IN  IF l = NoTree \/ r = NoTree THEN NoTree
                 ELSE Bin(IF s[k].type = "TOK_MUL" THEN "OP_MUL" ELSE "OP_DIV", l, r)

RefExpr(s) ==
    LET at == {k \in 2..(Len(s) - 1) :
                  s[k].type \in {"TOK_PLUS", "TOK_MINUS"} /\ Depth(s, k) = 0}
    IN  IF at = {} THEN RefTerm(s)
        ELSE LET k == CHOOSE k \in at : \A j \in at : j <= k
                 l == RefExpr(SubSeq(s, 1, k - 1))
                 r == RefTerm(SubSeq(s, k + 1, Len(s)))
             IN  IF l = NoTree \/ r = NoTree THEN NoTree
                 ELSE Bin(IF s[k].type = "TOK_PLUS" THEN "OP_ADD" ELSE "OP_SUB", l, r)

\* a first call of parser_parse on a fresh stream has returned
ParsedSource == parse_ret.call = "parser_parse" /\ parse_ret.n = 1

\* C34: parser_parse returns a tree only when the tokens up to TOK_EOF form one
\* expression of the grammar (and then always), the stream is then at TOK_EOF,
\* and the tree is the grammar's: '*' and '/' bind tighter than '+' and '-',
\* equal precedence associates to the left; a - b - c gives Sub(Sub(a, b), c)
\* and a + b * c gives Add(a, Mul(b, c)).
C34_ParseTree ==
    ParsedSource =>
        LET toks == TokensOf(lexer_init(ts.src))
            tree == TreeOf(heap, parse_ret.node)
        IN  /\ tree = RefExpr(toks)
            /\ parse_ret.node # NULL =>
                 /\ lexer_peek(ts).tok.type = "TOK_EOF"
                 /\ ts.pos = ts.len
            /\ ts.src = << "8", "-", "3", "-", "2" >> =>
                 tree = Bin("OP_SUB", Bin("OP_SUB", Num(LongOf(8)), Num(LongOf(3))),
                            Num(LongOf(2)))
            /\ ts.src = << "2", "+", "3", "*", "4" >> =>
                 tree = Bin("OP_ADD", Num(LongOf(2)),
                            Bin("OP_MUL", Num(LongOf(3)), Num(LongOf(4))))

\* 8-3-2 parsed into Sub(Sub(8, 3), 2): five nodes, the root made last
C34_Witness ==
    /\ ParsedSource /\ ts.src = << "8", "-", "3", "-", "2" >>
    /\ parse_ret.node = 5 /\ heap[5].op = "OP_SUB" /\ heap[5].left = 3
    /\ heap[3].op = "OP_SUB" /\ heap[5].right = 4


\* the return events of a trace, in order
ReturnsOf(trace) == SelectSeq(trace, LAMBDA e : e.ev = "return")

\* C38: once the error flag is set it stays set, and from then on every
\* production returns NULL; parser_parse returns a tree iff no error is
\* flagged; no node is freed twice, after an error return of a first call
\* every node allocated has been freed exactly once, after a successful one the
\* nodes allocated are the nodes of the returned tree, none of them freed; and
\* ast_make_binary is never called with a NULL child.
C38_ParserErrors ==
    /\ [][parser.error = 1 =>
            /\ parser'.error = 1
            /\ parse_ret' # parse_ret => parse_ret'.node = NULL]_vars
    /\ [](LET rets == ReturnsOf(parse_ret.trace)
          IN  \A i \in 1..Len(rets) :
                 /\ rets[i].error = 1 => rets[i].node = NULL
                 /\ \A j \in i..Len(rets) : rets[i].error = 1 => rets[j].error = 1)
    /\ [](parse_ret.call = "parser_parse" =>
            (parse_ret.node # NULL <=> parser.error = 0))
    /\ [](\A a \in 1..Len(heap) :
            /\ frees[a] <= 1
            /\ frees[a] = 0 <=> \E r \in roots : a \in NodesOf(heap, r))
    /\ [](parse_ret.n = 1 /\ ast_ret.call = "none" =>
            IF parse_ret.node = NULL
            THEN parser.error = 1 /\ \A a \in 1..Len(heap) : frees[a] = 1
            ELSE /\ NodesOf(heap, parse_ret.node) = 1..Len(heap)
                 /\ \A a \in 1..Len(heap) : frees[a] = 0)
    /\ [](/\ ~parse_ret.exited
          /\ \A i \in 1..Len(parse_ret.trace) :
                parse_ret.trace[i].ev = "ast_make_binary" =>
                    parse_ret.trace[i].left # NULL /\ parse_ret.trace[i].right # NULL)

\* 7*(7+ : the error is flagged at the end of input with two nodes allocated,
\* each of them freed once, and every production on the way out returned NULL
C38_Witness ==
    /\ ParsedSource /\ ts.src = << "7", "*", "(", "7", "+" >>
    /\ parser.error = 1 /\ parse_ret.node = NULL
    /\ Len(heap) = 2 /\ frees = << 1, 1 >>
    /\ Len(ReturnsOf(parse_ret.trace)) >= 5


\* the registers an instruction sequence names in dst and, for the operators, src
NamedRegs(p) ==
    {p[i].dst : i \in 1..Len(p)} \cup
    {p[i].src : i \in {j \in 1..Len(p) : p[j].op # "IR_LOAD_CONST"}}

\* a tree with more registers needed than the CPU has was lowered and run
TooWide == ast # NoTree /\ NumLeaves(ast) > CPU_MAX_REGS

\* C35: codegen never bounds its register counter: the program of a tree with
\* n leaves names exactly the registers 0 .. n-1.  For more than 32 leaves it
\* names register 32, cpu_execute never delivers a value, and it fails with
\* RegisterOutOfRange at the LOAD_CONST into register 32 unless a DIV by zero
\* executed before that instruction has failed first with DivisionByZero.
\* Up to 32 leaves the run never fails with RegisterOutOfRange.
C35_RegisterPressure ==
    ast # NoTree =>
        /\ NamedRegs(codegen.prog) = 0..(NumLeaves(ast) - 1)
        /\ codegen.next_reg = NumLeaves(ast)
        /\ ~TooWide => err # "RegisterOutOfRange"
        /\ TooWide =>
             /\ \E i \in 1..Len(prog) : prog[i].dst >= CPU_MAX_REGS
             /\ status # "ok" /\ ~out_result.written
             /\ \A i \in 1..pc : prog[i].dst < CPU_MAX_REGS
             /\ status = "error" =>
                  \/ /\ err = "RegisterOutOfRange"
                     /\ Fetch.op = "IR_LOAD_CONST" /\ Fetch.dst = CPU_MAX_REGS
                  \/ /\ err = "DivisionByZero"
                     /\ Fetch.op = "IR_DIV" /\ regs[Fetch.src] = WZero

\* the comb of 33 leaves has failed at its 33rd LOAD_CONST, 32 registers loaded
C35_Witness ==
    /\ ast = Bin("OP_ADD", Num(LongOf(1)), RightComb(MaxComb))
    /\ status = "error" /\ err = "RegisterOutOfRange"
    /\ dispatched = CPU_MAX_REGS + 1 /\ regs[CPU_MAX_REGS - 1] = Wd(1)

\* C35 as stated: every tree with more than 32 leaves makes cpu_execute fail with
\* RegisterOutOfRange
C35_Claim ==
    TooWide /\ status = "error" => err = "RegisterOutOfRange"


\* C36: cpu_execute on an absent program or a program of length 0 returns an
\* error at once: nothing is dispatched, no register, flag or memory byte
\* changes, the caller's result is not written, and the call never ends as a
\* normal termination.
C36_EmptyProgram ==
    /\ [](calls > 0 /\ (prog_null \/ Len(prog) = 0) =>
            /\ status = "error" /\ err = "EmptyProgram"
            /\ dispatched = 0 /\ stores = << >> /\ mem = mem0
            /\ ~out_result.written)
    /\ [][calls' = calls + 1 /\ (prog_null' \/ Len(prog') = 0) =>
            /\ status' = "error"
            /\ UNCHANGED <<regs, flags, pc, last_dst, step_count>>]_vars
    /\ [](err = "EmptyProgram" => prog_null \/ Len(prog) = 0)

\* the call on a program of length 0 with a result pointer has returned the error
C36_Witness ==
    /\ calls = 1 /\ ~prog_null /\ prog = << >> /\ out_attached
    /\ status = "error" /\ err = "EmptyProgram" /\ out_result = NoResult


\* the opcodes that assign last_dst
Writers == {"IR_LOAD_CONST", "IR_ADD", "IR_SUB", "IR_MUL", "IR_DIV", "IR_LOAD"}

\* the program has no instruction that writes a register
WriterFree == \A i \in 1..Len(prog) : prog[i].op \notin Writers

\* C37: last_dst and the registers start at 0 and only LoadConst, Add, Sub, Mul,
\* Div and Load change them, so a run that ends normally without having
\* executed one of these (a program of Cmp, branches and Store, or one that
\* jumps over its LoadConst) has last_dst = 0 and delivers R[0] = 0.
C37_NoDestination ==
    /\ [][calls' = calls + 1 /\ status' = "running" =>
            last_dst' = 0 /\ regs' = ZeroRegs]_vars
    /\ [][status = "running" /\ pc < Len(prog) /\ Fetch.op \notin Writers =>
            last_dst' = last_dst /\ regs' = regs]_vars
    /\ [](calls > 0 /\ WriterFree =>
            /\ last_dst = 0 /\ regs = ZeroRegs
            /\ status = "ok" => out_result = [written |-> TRUE, value |-> LongOf(0)])
    /\ [](/\ prog = << Ins("IR_JMP", 0, 0, 0, 2, 0), Ins("IR_LOAD_CONST", 3, 0, 99, 0, 0) >>
          /\ status = "ok"
          => last_dst = 0 /\ out_result = [written |-> TRUE, value |-> LongOf(0)])

\* CMP R1, R2 then JZ 2, taken: the run has ended normally with result 0
C37_Witness ==
    /\ prog = << Ins("IR_CMP", 1, 2, 0, 0, 0), Ins("IR_JZ", 0, 0, 0, 2, 0) >>
    /\ status = "ok" /\ dispatched = 2 /\ flags.Z = 1
    /\ last_dst = 0 /\ out_result = [written |-> TRUE, value |-> LongOf(0)]


\* the bytes that differ between two contents of Memory
Changed(m1, m2) ==
    {i \in DOMAIN m1 \cup DOMAIN m2 : MemByte(m1, i) # MemByte(m2, i)}

\* C39: a successful mem_write_word(addr, v) changes no byte outside
\* addr .. addr+3, mem_read_word changes no byte, and a call that fails
\* (alignment, bounds, no Memory) changes neither a byte of Memory nor the
\* word the caller passed for the read's output; a write never touches it.
C39_MemoryFrame ==
    /\ [][mem_op' = "write" =>
            /\ mem_out' = mem_out
            /\ IF mem_rc' = "ok"
               THEN Changed(mem, mem') \subseteq
                        WIndex(mem_addr') .. (WIndex(mem_addr') + MEM_WORD_SIZE - 1)
               ELSE Changed(mem, mem') = {}]_vars
    /\ [][mem_op' = "read" =>
            /\ Changed(mem, mem') = {}
            /\ mem_rc' # "ok" => mem_out' = mem_out]_vars

\* 0x01020304 written at 4 with 0xDEADBEEF at 0 still in place, and before it
\* a read had delivered a word
C39_Witness ==
    /\ mem_op = "write" /\ mem_rc = "ok" /\ mem_addr = Wd(4)
    /\ mem_read_word(TRUE, mem, WZero, WZero).out = W(57005, 48879)
    /\ mem_read_word(TRUE, mem, Wd(4), WZero).out = W(258, 772)
    /\ mem_out = W(57005, 48879)


\* the positions of p that name register r: as dst, or as src of an operator
NamesReg(p, r) ==
    {i \in 1..Len(p) : p[i].dst = r \/ (p[i].op # "IR_LOAD_CONST" /\ p[i].src = r)}

\* C40: in a program generated from a fresh Codegen every register named is
\* the dst of exactly one LoadConst, is the src of at most one instruction,
\* and is named by no instruction after the one that has it as src; the
\* register returned for the root is 0 and is the dst of the last
\* instruction; when the run ends normally it is the register (last_dst)
\* whose value cpu_execute reports.
C40_RegisterUse ==
    (ast # NoTree /\ cg_runs > 0) =>
        LET p == codegen.prog
        IN  /\ \A r \in NamedRegs(p) :
                 /\ Cardinality({i \in 1..Len(p) :
                        p[i].op = "IR_LOAD_CONST" /\ p[i].dst = r}) = 1
                 /\ Cardinality({i \in 1..Len(p) :
                        p[i].op # "IR_LOAD_CONST" /\ p[i].src = r}) <= 1
                 /\ \A i \in 1..Len(p) :
                        (p[i].op # "IR_LOAD_CONST" /\ p[i].src = r) =>
                            \A j \in NamesReg(p, r) : j <= i
            /\ cg_reg = 0 /\ p[Len(p)].dst = 0
            /\ status = "ok" =>
                 /\ last_dst = cg_reg
                 /\ out_result = [written |-> TRUE, value |-> WordToLong(regs[cg_reg])]

\* 3 + 4 * 2 lowered and run: R1 is the src of the ADD after R2 was the src of
\* the MUL, and the result 11 is read from R0
C40_Witness ==
    /\ ast = Tree_3p4m2 /\ status = "ok" /\ cg_reg = 0 /\ last_dst = 0
    /\ codegen.prog[4].src = 2 /\ codegen.prog[5].src = 1
    /\ out_result = [written |-> TRUE, value |-> LongOf(11)]

====
